---- MODULE Spec2Model ----
(***************************************************************************)
(* Model of the timetravel workflow engine: the session document store     *)
(* (sessionService), the generic agent executor (agentExecutor) and the    *)
(* workflow controller (getNextAgent in agents.config).                    *)
(*                                                                         *)
(* JavaScript values are modelled as tagged records, so that "absent",     *)
(* null, primitives, arrays and objects stay distinguishable and the JSON  *)
(* round trip of the store is a real conversion.  Timestamps, durations    *)
(* and prompt texts are abstracted away: no modelled decision reads them.  *)
(***************************************************************************)
EXTENDS Integers, Sequences, FiniteSets, TLC

VARIABLES
  store,     \* sessions/<id>/session.json : session id -> stored document
  exec,      \* one record per executeAgent caller (its position and result)
  nsucc,     \* history: per session and append field, the successful executeAgent calls
  ctl,       \* the most recent getNextAgent evaluation (its inputs and result)
  wr,        \* the most recent direct writeAgentOutput call (its inputs and result)
  task,      \* one record per caller: the route handler or service call it is running
  last,      \* history: the operation performed by the latest step
  overlapped \* history: an invocation was started while another was under way

vars == <<store, exec, nsucc, ctl, wr, task, last, overlapped>>

----------------------------------------------------------------------------
(* Bounds of the model *)

\* executeAgent is not started on a session holding this many log entries
MaxExec == 3
\* addPivotalMoment is not applied to a session holding this many moments
MaxMoments == 2
\* longest nextAgentRules list of a hypothetical agent configuration
MaxRules == 2
\* direct writeAgentOutput calls in one run
MaxWrites == 3
\* the workflow loop starts no agent on a session holding this many log entries
MaxSteps == 12

----------------------------------------------------------------------------
(* JavaScript / JSON values *)

Undefined == [t |-> "undefined"]
JNull == [t |-> "null"]
JStr(s) == [t |-> "string", s |-> s]
JNum(n) == [t |-> "number", n |-> n]
JBool(b) == [t |-> "boolean", b |-> b]
\* an array: its elements, and any non-index properties set on it
JArr(a) == [t |-> "array", a |-> a, p |-> <<>>]
JObj(f) == [t |-> "object", f |-> f]

\* JavaScript truthiness, as used by ||, && and if
Truthy(v) ==
  CASE v.t = "undefined" -> FALSE
    [] v.t = "null" -> FALSE
    [] v.t = "boolean" -> v.b
    [] v.t = "number" -> v.n # 0
    [] v.t = "string" -> v.s # ""
    [] OTHER -> TRUE

\* a || b
OrElse(a, b) == IF Truthy(a) THEN a ELSE b

\* a ?? b
Coalesce(a, b) == IF a.t \in {"undefined", "null"} THEN b ELSE a

\* key in value, for an object or an array (no index keys are modelled)
HasKey(value, key) ==
  CASE value.t = "object" -> key \in DOMAIN value.f
    [] value.t = "array" -> key \in DOMAIN value.p
    [] OTHER -> FALSE

\* value[key] for a value that is neither undefined nor null
Prop(value, key) ==
  CASE value.t = "object" -> IF key \in DOMAIN value.f THEN value.f[key] ELSE Undefined
    [] value.t = "array" -> IF key \in DOMAIN value.p THEN value.p[key] ELSE Undefined
    [] OTHER -> Undefined

\* value[key] = v for an object or an array
WithProp(value, key, v) ==
  IF value.t = "object"
    THEN [value EXCEPT !.f = (key :> v) @@ value.f]
    ELSE [value EXCEPT !.p = (key :> v) @@ value.p]

\* array.push(item)
Push(arr, item) == [arr EXCEPT !.a = Append(arr.a, item)]

\* JSON.parse(JSON.stringify(v, null, 2)): properties holding undefined are
\* dropped, undefined array elements become null, non-index properties of
\* arrays are dropped
RECURSIVE JSONRoundTrip(_)
JSONRoundTrip(v) ==
  CASE v.t = "object" ->
         JObj([k \in {q \in DOMAIN v.f : v.f[q] # Undefined} |-> JSONRoundTrip(v.f[k])])
    [] v.t = "array" ->
         JArr([i \in DOMAIN v.a |-> IF v.a[i] = Undefined THEN JNull ELSE JSONRoundTrip(v.a[i])])
    [] OTHER -> v

\* path.split('.') for the paths the configurations use
Split(path) ==
  CASE path = "input.date" -> <<"input", "date">>
    [] path = "input.location" -> <<"input", "location">>
    [] path = "config.numberOfPersonaOptions" -> <<"config", "numberOfPersonaOptions">>
    [] path = "a.b" -> <<"a", "b">>
    [] path = "x.y.z" -> <<"x", "y", "z">>
    [] path = "metadata.endTime" -> <<"metadata", "endTime">>
    [] path = "metadata.status.x" -> <<"metadata", "status", "x">>
    [] path = "lifelines.x" -> <<"lifelines", "x">>
    [] OTHER -> <<path>>

RECURSIVE WalkKeys(_, _)
WalkKeys(value, keys) ==
  IF keys = <<>> THEN value
  ELSE IF value = Undefined \/ value = JNull THEN Undefined
  ELSE WalkKeys(Prop(value, Head(keys)), Tail(keys))

\* getNestedValue(obj, path)
getNestedValue(obj, path) == WalkKeys(obj, Split(path))

\* setNestedValue assigning the last key only where the object lacks it
RECURSIVE SetKeys_keepsExisting(_, _, _)
SetKeys_keepsExisting(current, keys, value) ==
  IF current.t \notin {"object", "array"}
    THEN [ok |-> FALSE, obj |-> current]
  ELSE IF Len(keys) = 1
    THEN [ok |-> TRUE,
          obj |-> IF HasKey(current, keys[1]) THEN current
                  ELSE WithProp(current, keys[1], value)]
  ELSE LET key == Head(keys)
           made == IF HasKey(current, key) THEN current ELSE WithProp(current, key, JObj(<<>>))
           sub == SetKeys_keepsExisting(Prop(made, key), Tail(keys), value)
       IN  IF sub.ok THEN [ok |-> TRUE, obj |-> WithProp(made, key, sub.obj)]
           ELSE [ok |-> FALSE, obj |-> current]

\* setNestedValue putting a new object at every segment before the last
RECURSIVE SetKeys_freshObjects(_, _, _)
SetKeys_freshObjects(current, keys, value) ==
  IF current.t \notin {"object", "array"}
    THEN [ok |-> FALSE, obj |-> current]
  ELSE IF Len(keys) = 1
    THEN [ok |-> TRUE, obj |-> WithProp(current, keys[1], value)]
  ELSE LET key == Head(keys)
           made == WithProp(current, key, JObj(<<>>))
           sub == SetKeys_freshObjects(Prop(made, key), Tail(keys), value)
       IN  IF sub.ok THEN [ok |-> TRUE, obj |-> WithProp(made, key, sub.obj)]
           ELSE [ok |-> FALSE, obj |-> current]

\* The loop and final assignment of setNestedValue on `current`.  The module
\* is strict-mode code: `key in current` on a primitive or null, and an
\* assignment of a property on a primitive or null, throw a TypeError.
RECURSIVE SetKeys(_, _, _)
SetKeys(current, keys, value) ==
  IF current.t \notin {"object", "array"}
    THEN [ok |-> FALSE, obj |-> current]
  ELSE IF Len(keys) = 1
    THEN [ok |-> TRUE, obj |-> WithProp(current, keys[1], value)]
  ELSE LET key == Head(keys)
           made == IF HasKey(current, key) THEN current ELSE WithProp(current, key, JObj(<<>>))
           sub == SetKeys(Prop(made, key), Tail(keys), value)
       IN  IF sub.ok THEN [ok |-> TRUE, obj |-> WithProp(made, key, sub.obj)]
           ELSE [ok |-> FALSE, obj |-> current]

\* setNestedValue(obj, path, value): ok = FALSE when it throws
setNestedValue(obj, path, value) == SetKeys(obj, Split(path), value)

----------------------------------------------------------------------------
(* Session documents (session.types) *)

\* createEmptySession(sessionId, input, config)
createEmptySession(sessionId, input, config) ==
  JObj([metadata |-> JObj([sessionId |-> JStr(sessionId),
                           currentStep |-> JStr("initialization"),
                           status |-> JStr("active"),
                           totalSteps |-> JNum(0)]),
        input |-> input,
        config |-> JObj([numberOfPersonaOptions |->
                           OrElse(Prop(config, "numberOfPersonaOptions"), JNum(4)),
                         maxPivotalMoments |->
                           OrElse(Prop(config, "maxPivotalMoments"), JNum(5)),
                         generateImages |->
                           Coalesce(Prop(config, "generateImages"), JBool(FALSE))]),
        lifelines |-> JArr(<<>>),
        pivotalMoments |-> JArr(<<>>),
        choices |-> JArr(<<>>),
        imagePrompts |-> JArr(<<>>),
        images |-> JArr(<<>>),
        executionLogs |-> JArr(<<>>),
        gameState |-> JObj([isAlive |-> JBool(TRUE)])])

----------------------------------------------------------------------------
(* Session store (sessionService).  An operation that can throw yields      *)
(* [ok, store, error]: the store it leaves and, when ok is FALSE, the       *)
(* message of the error it throws.                                          *)

Ret(st) == [ok |-> TRUE, store |-> st, error |-> ""]
Thrown(st, msg) == [ok |-> FALSE, store |-> st, error |-> msg]

\* the message of the TypeError the JavaScript runtime raises
TypeErrorMsg == "TypeError"

\* fs.existsSync(getSessionFilePath(sessionId))
SessionExists(st, sessionId) == sessionId \in DOMAIN st

NotFoundMsg(sessionId) == "Session file not found: " \o sessionId

\* readSession(sessionId), for a session that exists
readSession(st, sessionId) == st[sessionId]

\* getOldSessionFilePath(sessionId), relative to the sessions directory: the
\* flat file of the old layout.  The store maps the files of the sessions
\* directory to their contents; the file of the folder layout,
\* <sessionId>/session.json, goes by the session id.
getOldSessionFilePath(sessionId) == sessionId \o ".json"

\* readSession(sessionId) with its fall-back to the flat file: the document
\* read, or ok = FALSE when neither file exists
readSessionFile(st, sessionId) ==
  IF sessionId \in DOMAIN st THEN [ok |-> TRUE, value |-> st[sessionId]]
  ELSE IF getOldSessionFilePath(sessionId) \in DOMAIN st
    THEN [ok |-> TRUE, value |-> st[getOldSessionFilePath(sessionId)]]
  ELSE [ok |-> FALSE, value |-> Undefined]

\* migrateSessionToFolder(sessionId): the files it leaves and what it returns
migrateSessionToFolder(st, sessionId) ==
  IF getOldSessionFilePath(sessionId) \notin DOMAIN st
    THEN [store |-> st, value |-> FALSE]
  ELSE IF sessionId \in DOMAIN st THEN [store |-> st, value |-> TRUE]
  ELSE [store |-> (sessionId :> JSONRoundTrip(st[getOldSessionFilePath(sessionId)])) @@ st,
        value |-> TRUE]

\* writeSession writing the flat file of the old layout
writeSession_flatFile(st, sessionId, session) ==
  (getOldSessionFilePath(sessionId) :> JSONRoundTrip(session)) @@ st

\* writeSession with one file for all sessions
writeSession_oneFile(st, sessionId, session) ==
  [s \in DOMAIN st \cup {sessionId} |-> JSONRoundTrip(session)]

\* writeSession(sessionId, session): the file holds JSON.stringify(session)
writeSession(st, sessionId, session) == (sessionId :> JSONRoundTrip(session)) @@ st

\* setSelectedPersona(sessionId, persona)
setSelectedPersona(st, sessionId, persona) ==
  IF ~SessionExists(st, sessionId) THEN Thrown(st, NotFoundMsg(sessionId))
  ELSE Ret(writeSession(st, sessionId,
                        WithProp(readSession(st, sessionId), "selectedPersona", persona)))

\* addPivotalMoment(sessionId, moment)
addPivotalMoment(st, sessionId, moment) ==
  IF ~SessionExists(st, sessionId) THEN Thrown(st, NotFoundMsg(sessionId))
  ELSE LET session == readSession(st, sessionId)
           list == Prop(session, "pivotalMoments")
       IN  IF list.t # "array" THEN Thrown(st, TypeErrorMsg)
           ELSE Ret(writeSession(st, sessionId,
                                 WithProp(session, "pivotalMoments", Push(list, moment))))

\* { ...a, ...b } for two objects
Spread(a, b) == JObj(b.f @@ a.f)

\* updateSessionMetadata(sessionId, updates)
updateSessionMetadata(st, sessionId, updates) ==
  IF ~SessionExists(st, sessionId) THEN Thrown(st, NotFoundMsg(sessionId))
  ELSE LET session == readSession(st, sessionId)
       IN  Ret(writeSession(st, sessionId,
                 WithProp(session, "metadata", Spread(Prop(session, "metadata"), updates))))

\* addHistoricalContext(sessionId, context)
addHistoricalContext(st, sessionId, context) ==
  IF ~SessionExists(st, sessionId) THEN Thrown(st, NotFoundMsg(sessionId))
  ELSE Ret(writeSession(st, sessionId,
                        WithProp(readSession(st, sessionId), "historicalContext", context)))

\* addPersonaOptions(sessionId, options)
addPersonaOptions(st, sessionId, options) ==
  IF ~SessionExists(st, sessionId) THEN Thrown(st, NotFoundMsg(sessionId))
  ELSE Ret(writeSession(st, sessionId,
                        WithProp(readSession(st, sessionId), "personaOptions", options)))

\* addLifeline(sessionId, lifeline)
addLifeline(st, sessionId, lifeline) ==
  IF ~SessionExists(st, sessionId) THEN Thrown(st, NotFoundMsg(sessionId))
  ELSE LET session == readSession(st, sessionId)
           list == Prop(session, "lifelines")
           gameState == Prop(session, "gameState")
       IN  IF list.t # "array" \/ gameState.t # "object" THEN Thrown(st, TypeErrorMsg)
           ELSE Ret(writeSession(st, sessionId,
                      WithProp(WithProp(session, "lifelines", Push(list, lifeline)),
                               "gameState",
                               WithProp(gameState, "currentAge", Prop(lifeline, "endAge")))))

\* addUserChoice(sessionId, choice)
addUserChoice(st, sessionId, choice) ==
  IF ~SessionExists(st, sessionId) THEN Thrown(st, NotFoundMsg(sessionId))
  ELSE LET session == readSession(st, sessionId)
           list == Prop(session, "choices")
       IN  IF list.t # "array" THEN Thrown(st, TypeErrorMsg)
           ELSE Ret(writeSession(st, sessionId,
                                 WithProp(session, "choices", Push(list, choice))))

\* addImagePrompt(sessionId, imagePrompt)
addImagePrompt(st, sessionId, imagePrompt) ==
  IF ~SessionExists(st, sessionId) THEN Thrown(st, NotFoundMsg(sessionId))
  ELSE LET session == readSession(st, sessionId)
           list == Prop(session, "imagePrompts")
       IN  IF list.t # "array" THEN Thrown(st, TypeErrorMsg)
           ELSE Ret(writeSession(st, sessionId,
                                 WithProp(session, "imagePrompts", Push(list, imagePrompt))))

\* endSession(sessionId, status, reason); reason is undefined when not passed
endSession(st, sessionId, status, reason) ==
  IF ~SessionExists(st, sessionId) THEN Thrown(st, NotFoundMsg(sessionId))
  ELSE LET session == readSession(st, sessionId)
           metadata == Prop(session, "metadata")
           gameState == Prop(session, "gameState")
       IN  IF metadata.t # "object" \/ gameState.t # "object" THEN Thrown(st, TypeErrorMsg)
           ELSE LET g1 == IF Truthy(reason) THEN WithProp(gameState, "endReason", reason)
                          ELSE gameState
                    g2 == IF status = "completed"
                            THEN WithProp(g1, "isAlive",
                                          JBool(Prop(g1, "endReason") # JStr("death")))
                            ELSE g1
                IN  Ret(writeSession(st, sessionId,
                          WithProp(WithProp(session, "metadata",
                                            WithProp(metadata, "status", JStr(status))),
                                   "gameState", g2)))

\* addExecutionLog writing a document for a session that has none
addExecutionLog_createsMissing(st, sessionId, log) ==
  IF ~SessionExists(st, sessionId)
    THEN Ret(writeSession(st, sessionId, JObj([executionLogs |-> JArr(<<log>>)])))
  ELSE LET session == readSession(st, sessionId)
           list == Prop(session, "executionLogs")
           meta == Prop(session, "metadata")
       IN  IF list.t # "array" \/ meta.t \notin {"object", "array"}
             THEN Thrown(st, TypeErrorMsg)
           ELSE LET logs == Push(list, log)
                    s1 == WithProp(session, "executionLogs", logs)
                    s2 == WithProp(s1, "metadata",
                                   WithProp(meta, "totalSteps", JNum(Len(logs.a))))
                IN  Ret(writeSession(st, sessionId, s2))

\* addExecutionLog keeping only the new entry
addExecutionLog_overwrites(st, sessionId, log) ==
  IF ~SessionExists(st, sessionId) THEN Thrown(st, NotFoundMsg(sessionId))
  ELSE LET session == readSession(st, sessionId)
           s1 == WithProp(session, "executionLogs", JArr(<<log>>))
           s2 == WithProp(s1, "metadata",
                          WithProp(Prop(session, "metadata"), "totalSteps", JNum(1)))
       IN  Ret(writeSession(st, sessionId, s2))

\* addExecutionLog counting the entries before it pushes the new one
addExecutionLog_countsFirst(st, sessionId, log) ==
  IF ~SessionExists(st, sessionId) THEN Thrown(st, NotFoundMsg(sessionId))
  ELSE LET session == readSession(st, sessionId)
           list == Prop(session, "executionLogs")
           meta == Prop(session, "metadata")
       IN  IF list.t # "array" \/ meta.t \notin {"object", "array"}
             THEN Thrown(st, TypeErrorMsg)
           ELSE LET logs == Push(list, log)
                    s1 == WithProp(session, "executionLogs", logs)
                    s2 == WithProp(s1, "metadata",
                                   WithProp(meta, "totalSteps", JNum(Len(list.a))))
                IN  Ret(writeSession(st, sessionId, s2))

\* addExecutionLog(sessionId, log)
addExecutionLog(st, sessionId, log) ==
  IF ~SessionExists(st, sessionId) THEN Thrown(st, NotFoundMsg(sessionId))
  ELSE LET session == readSession(st, sessionId)
           list == Prop(session, "executionLogs")
           meta == Prop(session, "metadata")
       IN  IF list.t # "array" \/ meta.t \notin {"object", "array"}
             THEN Thrown(st, TypeErrorMsg)
           ELSE LET logs == Push(list, log)
                    s1 == WithProp(session, "executionLogs", logs)
                    s2 == WithProp(s1, "metadata",
                                   WithProp(meta, "totalSteps", JNum(Len(logs.a))))
                IN  Ret(writeSession(st, sessionId, s2))

\* the array-field names writeAgentOutput appends to
AppendFields == {"lifelines", "pivotalMoments", "images", "imagePrompts", "choices"}

\* writeAgentOutput with the Array.isArray test dropped: the array is made anew
writeAgentOutput_resets(st, sessionId, outputField, output) ==
  IF ~SessionExists(st, sessionId) THEN Thrown(st, NotFoundMsg(sessionId))
  ELSE LET session == readSession(st, sessionId)
       IN  IF outputField \in AppendFields
             THEN Ret(writeSession(st, sessionId,
                        WithProp(session, outputField, JArr(<<output>>))))
             ELSE LET r == setNestedValue(session, outputField, output)
                  IN  IF r.ok THEN Ret(writeSession(st, sessionId, r.obj))
                      ELSE Thrown(st, TypeErrorMsg)

\* writeAgentOutput treating every top-level field as an array field
writeAgentOutput_pushesAll(st, sessionId, outputField, output) ==
  IF ~SessionExists(st, sessionId) THEN Thrown(st, NotFoundMsg(sessionId))
  ELSE LET session == readSession(st, sessionId)
       IN  IF Split(outputField) = <<outputField>>
             THEN LET made == IF Prop(session, outputField).t = "array" THEN session
                              ELSE WithProp(session, outputField, JArr(<<>>))
                  IN  Ret(writeSession(st, sessionId,
                            WithProp(made, outputField,
                                     Push(Prop(made, outputField), output))))
             ELSE LET r == setNestedValue(session, outputField, output)
                  IN  IF r.ok THEN Ret(writeSession(st, sessionId, r.obj))
                      ELSE Thrown(st, TypeErrorMsg)

\* writeAgentOutput(sessionId, outputField, output)
writeAgentOutput(st, sessionId, outputField, output) ==
  IF ~SessionExists(st, sessionId) THEN Thrown(st, NotFoundMsg(sessionId))
  ELSE LET session == readSession(st, sessionId)
       IN  IF outputField \in AppendFields
             THEN LET made == IF Prop(session, outputField).t = "array" THEN session
                              ELSE WithProp(session, outputField, JArr(<<>>))
                  IN  Ret(writeSession(st, sessionId,
                            WithProp(made, outputField,
                                     Push(Prop(made, outputField), output))))
             ELSE LET r == setNestedValue(session, outputField, output)
                  IN  IF r.ok THEN Ret(writeSession(st, sessionId, r.obj))
                      ELSE Thrown(st, TypeErrorMsg)

MissingInputMsg(field) == "Required input field missing: " \o field

\* the loop of getAgentInput without its required check
RECURSIVE InputLoop_neverThrows(_, _, _)
InputLoop_neverThrows(session, inputFields, input) ==
  IF inputFields = <<>> THEN [ok |-> TRUE, input |-> input, error |-> ""]
  ELSE LET fld == Head(inputFields)
           value == getNestedValue(session, fld.field)
       IN  InputLoop_neverThrows(session, Tail(inputFields),
                                 IF value # Undefined THEN (fld.field :> value) @@ input
                                 ELSE input)

\* the for loop of getAgentInput over the fields not yet visited
RECURSIVE InputLoop(_, _, _)
InputLoop(session, inputFields, input) ==
  IF inputFields = <<>> THEN [ok |-> TRUE, input |-> input, error |-> ""]
  ELSE LET fld == Head(inputFields)
           value == getNestedValue(session, fld.field)
       IN  IF fld.required /\ value = Undefined
             THEN [ok |-> FALSE, input |-> input, error |-> MissingInputMsg(fld.field)]
             ELSE InputLoop(session, Tail(inputFields),
                            IF value # Undefined THEN (fld.field :> value) @@ input
                            ELSE input)

\* getAgentInput(sessionId, inputFields)
getAgentInput(st, sessionId, inputFields) ==
  IF ~SessionExists(st, sessionId)
    THEN [ok |-> FALSE, input |-> <<>>, error |-> NotFoundMsg(sessionId)]
    ELSE InputLoop(readSession(st, sessionId), inputFields, <<>>)

----------------------------------------------------------------------------
(* Agent registry (agents.config) *)

Field(path, required) == [field |-> path, required |-> required]
Rule(condition, nextAgentId) == [condition |-> condition, nextAgentId |-> nextAgentId]

\* a nextAgentId left undefined in the configuration
NoNextAgent == "undefined"
\* the null getNextAgent returns
Terminal == "null"

\* AGENTS; an absent requiresUserInput is written FALSE (it is only tested for truth)
AGENTS ==
  [historicalContext |->
     [id |-> "historicalContext", type |-> "historicalContext",
      inputFields |-> <<Field("input.date", TRUE), Field("input.location", TRUE)>>,
      outputField |-> "historicalContext",
      nextAgentRules |-> <<Rule("always", "personaGeneration")>>,
      repeatable |-> FALSE, requiresUserInput |-> FALSE],
   personaGeneration |->
     [id |-> "personaGeneration", type |-> "personaGeneration",
      inputFields |-> <<Field("historicalContext", TRUE),
                        Field("config.numberOfPersonaOptions", FALSE)>>,
      outputField |-> "personaOptions",
      nextAgentRules |-> <<Rule("userSelection", "lifelineGeneration")>>,
      repeatable |-> FALSE, requiresUserInput |-> TRUE],
   lifelineGeneration |->
     [id |-> "lifelineGeneration", type |-> "lifelineGeneration",
      inputFields |-> <<Field("historicalContext", TRUE), Field("selectedPersona", TRUE),
                        Field("lifelines", FALSE), Field("lastChoice", FALSE)>>,
      outputField |-> "lifelines",
      nextAgentRules |-> <<Rule("always", "pivotalMomentGeneration")>>,
      repeatable |-> TRUE, requiresUserInput |-> FALSE],
   pivotalMomentGeneration |->
     [id |-> "pivotalMomentGeneration", type |-> "pivotalMomentGeneration",
      inputFields |-> <<Field("historicalContext", TRUE), Field("lifelines", TRUE),
                        Field("pivotalMoments", FALSE)>>,
      outputField |-> "pivotalMoments",
      nextAgentRules |-> <<Rule("userSelection", "lifelineGeneration"),
                           Rule("endCondition", NoNextAgent)>>,
      repeatable |-> TRUE, requiresUserInput |-> TRUE],
   imagePromptGeneration |->
     [id |-> "imagePromptGeneration", type |-> "imagePromptGeneration",
      inputFields |-> <<Field("lifelines", FALSE), Field("pivotalMoments", FALSE),
                        Field("historicalContext", TRUE)>>,
      outputField |-> "imagePrompts",
      nextAgentRules |-> <<Rule("always", "imageGeneration")>>,
      repeatable |-> TRUE, requiresUserInput |-> FALSE],
   imageGeneration |->
     [id |-> "imageGeneration", type |-> "imageGeneration",
      inputFields |-> <<Field("imagePrompts", TRUE), Field("historicalContext", TRUE)>>,
      outputField |-> "images",
      nextAgentRules |-> <<Rule("always", NoNextAgent)>>,
      repeatable |-> TRUE, requiresUserInput |-> FALSE]]

AgentIds == DOMAIN AGENTS

\* getAgentConfig(agentId): the property read AGENTS[agentId], undefined for
\* a key the object does not have
getAgentConfig(agentId) == IF agentId \in AgentIds THEN AGENTS[agentId] ELSE Undefined

\* getInitialAgent()
getInitialAgent == AGENTS.historicalContext

\* Configurations no registry entry has, passed to executeAgent to reach the
\* cases the registry leaves out: a nested set-target, and an append to
\* "choices" behind a required nested input.
ProbeAgents ==
  [probeSet |->
     [id |-> "probeSet", type |-> "historicalContext",
      inputFields |-> <<Field("input.date", TRUE)>>,
      outputField |-> "a.b",
      nextAgentRules |-> <<Rule("always", "probeAppend")>>,
      repeatable |-> TRUE, requiresUserInput |-> FALSE],
   probeAppend |->
     [id |-> "probeAppend", type |-> "historicalContext",
      inputFields |-> <<Field("lastChoice", FALSE), Field("a.b", TRUE)>>,
      outputField |-> "choices",
      nextAgentRules |-> <<Rule("always", NoNextAgent)>>,
      repeatable |-> TRUE, requiresUserInput |-> FALSE]]

\* the configurations executeAgent is run with
ExecConfigs == {AGENTS[a] : a \in AgentIds} \cup {ProbeAgents[a] : a \in DOMAIN ProbeAgents}

ConfigOf(id) == IF id \in AgentIds THEN AGENTS[id] ELSE ProbeAgents[id]

----------------------------------------------------------------------------
(* Workflow controller (getNextAgent) *)

\* the ceiling test one off: pivotalMoments.length > maxMoments
LengthAtLeast_strict(list, max) ==
  list.t = "array" /\ max.t = "number" /\ Len(list.a) > max.n

\* pivotalMoments.length >= maxMoments
LengthAtLeast(list, max) == list.t = "array" /\ max.t = "number" /\ Len(list.a) >= max.n

\* the first moment read in place of the last: pivotalMoments[0]
LastOf_first(list) == IF list.t = "array" /\ list.a # <<>> THEN list.a[1] ELSE Undefined

\* pivotalMoments[pivotalMoments.length - 1]
LastOf(list) == IF list.t = "array" /\ list.a # <<>> THEN list.a[Len(list.a)] ELSE Undefined

\* value?.key
OptProp(value, key) == IF value.t \in {"undefined", "null"} THEN Undefined ELSE Prop(value, key)

\* the end-condition block of getNextAgent: TRUE when it returns null
EndConditionMet(currentAgentId, sessionData) ==
  /\ currentAgentId = "pivotalMomentGeneration"
  /\ LET pivotalMoments == OrElse(Prop(sessionData, "pivotalMoments"), JArr(<<>>))
         maxMoments == OrElse(OptProp(Prop(sessionData, "config"), "maxPivotalMoments"), JNum(5))
         lastMoment == LastOf(pivotalMoments)
     IN  \/ LengthAtLeast(pivotalMoments, maxMoments)
         \/ Truthy(OptProp(lastMoment, "characterDied"))

\* getNextAgent without its pause check
PauseForUser_never(currentAgent, userJustMadeSelection) == FALSE

\* the pause check of getNextAgent: TRUE when it returns null
PauseForUser(currentAgent, userJustMadeSelection) ==
  currentAgent.requiresUserInput /\ ~userJustMadeSelection

\* the rule loop as it was before the branching fix: a userSelection rule
\* is never taken
RECURSIVE RuleScan_skipsSelection(_, _)
RuleScan_skipsSelection(rules, userJustMadeSelection) ==
  IF rules = <<>> THEN Terminal
  ELSE IF Head(rules).condition = "always" THEN Head(rules).nextAgentId
  ELSE RuleScan_skipsSelection(Tail(rules), userJustMadeSelection)

\* the rule loop returning on an endCondition rule too
RECURSIVE RuleScan_endMatches(_, _)
RuleScan_endMatches(rules, userJustMadeSelection) ==
  IF rules = <<>> THEN Terminal
  ELSE LET rule == Head(rules)
       IN  IF rule.condition \in {"always", "endCondition"} THEN rule.nextAgentId
           ELSE IF rule.condition = "userSelection" /\ userJustMadeSelection
             THEN rule.nextAgentId
           ELSE RuleScan_endMatches(Tail(rules), userJustMadeSelection)

\* the for loop over nextAgentRules, and the return null after it
RECURSIVE RuleScan(_, _)
RuleScan(rules, userJustMadeSelection) ==
  IF rules = <<>> THEN Terminal
  ELSE LET rule == Head(rules)
       IN  IF rule.condition = "always" THEN rule.nextAgentId
           ELSE IF rule.condition = "userSelection" /\ userJustMadeSelection
             THEN rule.nextAgentId
           ELSE RuleScan(Tail(rules), userJustMadeSelection)

\* the body of getNextAgent once currentAgent has been looked up
getNextAgentFor(currentAgent, currentAgentId, sessionData, userJustMadeSelection) ==
  IF EndConditionMet(currentAgentId, sessionData) THEN Terminal
  ELSE IF PauseForUser(currentAgent, userJustMadeSelection) THEN Terminal
  ELSE RuleScan(currentAgent.nextAgentRules, userJustMadeSelection)

\* getNextAgent(currentAgentId, sessionData, userJustMadeSelection)
getNextAgent(currentAgentId, sessionData, userJustMadeSelection) ==
  getNextAgentFor(AGENTS[currentAgentId], currentAgentId, sessionData, userJustMadeSelection)

----------------------------------------------------------------------------
(* Route handlers (api/sessions/make-choice, api/sessions/select-persona) *)

\* array.find(e => e[key] === value), undefined when no element matches
Find(list, key, value) ==
  IF \E i \in DOMAIN list : Prop(list[i], key) = value
    THEN list[CHOOSE i \in DOMAIN list :
                /\ Prop(list[i], key) = value
                /\ \A j \in 1..(i - 1) : Prop(list[j], key) # value]
    ELSE Undefined

\* what a handler has done when it first suspends or responds: the response
\* status and error message (status 0 while no response is sent), the store
\* it leaves, and the step it goes on with
Resp(status, error, st, next) ==
  [status |-> status, error |-> error, store |-> st, next |-> next]

DuplicateMsg == "A choice has already been made for this pivotal moment"

\* the duplicate test comparing the choice id of the stored decisions
existingChoice_byChoiceId(session, pivotalMomentId, choiceId) ==
  Find(Prop(session, "choices").a, "choiceId", JStr(choiceId))

\* the duplicate test finding nothing
existingChoice_none(session, pivotalMomentId, choiceId) == Undefined

\* session.choices.find(c => c.pivotalMomentId === pivotalMomentId)
existingChoice(session, pivotalMomentId, choiceId) ==
  Find(Prop(session, "choices").a, "pivotalMomentId", JStr(pivotalMomentId))

\* POST make-choice from readSession to its first await, for trimmed
\* non-empty ids
makeChoice(st, sessionId, pivotalMomentId, choiceId) ==
  IF ~SessionExists(st, sessionId) THEN Resp(500, NotFoundMsg(sessionId), st, "done")
  ELSE
    LET session == readSession(st, sessionId)
        moments == Prop(session, "pivotalMoments")
        pivotalMoment == Find(moments.a, "id", JStr(pivotalMomentId))
    IN
    IF moments.t # "array" THEN Resp(500, TypeErrorMsg, st, "done")
    ELSE IF ~Truthy(pivotalMoment) THEN Resp(404, "Pivotal moment not found", st, "done")
    ELSE IF Prop(pivotalMoment, "choices").t # "array"
      THEN Resp(500, TypeErrorMsg, st, "done")
    ELSE
      LET choice == Find(Prop(pivotalMoment, "choices").a, "id", JStr(choiceId))
      IN
      IF ~Truthy(choice) THEN Resp(404, "Choice not found", st, "done")
      ELSE IF Prop(session, "choices").t # "array" THEN Resp(500, TypeErrorMsg, st, "done")
      ELSE IF Truthy(existingChoice(session, pivotalMomentId, choiceId))
        THEN Resp(400, DuplicateMsg, st, "done")
      ELSE
        LET userChoice == JObj([pivotalMomentId |-> JStr(pivotalMomentId),
                                choiceId |-> JStr(choiceId),
                                choiceTitle |-> Prop(choice, "title")])
            added == addUserChoice(st, sessionId, userChoice).store
            maxMoments == OrElse(Prop(Prop(session, "config"), "maxPivotalMoments"),
                                 JNum(5))
        IN
        IF Truthy(Prop(pivotalMoment, "characterDied"))
          THEN Resp(200, "",
                    updateSessionMetadata(added, sessionId,
                      JObj([currentStep |-> JStr("Game ended - character died"),
                            status |-> JStr("completed")])).store,
                    "done")
        ELSE IF LengthAtLeast(moments, maxMoments)
          THEN Resp(200, "",
                    updateSessionMetadata(added, sessionId,
                      JObj([currentStep |-> JStr("Game ended - max moments reached"),
                            status |-> JStr("completed")])).store,
                    "done")
        ELSE Resp(0, "",
                  updateSessionMetadata(added, sessionId,
                    JObj([currentStep |-> JStr("Generating next lifeline")])).store,
                  "lifeline")

\* POST select-persona from readSession to its first await, for trimmed
\* non-empty ids
selectPersona(st, sessionId, personaId) ==
  IF ~SessionExists(st, sessionId) THEN Resp(500, NotFoundMsg(sessionId), st, "done")
  ELSE
    LET session == readSession(st, sessionId)
        personaOptions == Prop(session, "personaOptions")
    IN
    IF ~Truthy(personaOptions)
      THEN Resp(400, "No persona options available for this session", st, "done")
    ELSE IF Prop(personaOptions, "options").t # "array"
      THEN Resp(500, TypeErrorMsg, st, "done")
    ELSE
      LET selectedPersona == Find(Prop(personaOptions, "options").a, "id", JStr(personaId))
      IN
      IF ~Truthy(selectedPersona) THEN Resp(404, "Invalid persona ID", st, "done")
      ELSE Resp(0, "",
                updateSessionMetadata(
                  setSelectedPersona(st, sessionId, selectedPersona).store, sessionId,
                  JObj([currentStep |-> JStr("Generating lifeline")])).store,
                "lifeline")

\* what both handlers do once generateLifeline or generatePivotalMoment has
\* settled: the catch block's response when it threw, else the next
\* updateSessionMetadata and the step after it
afterAgent(st, sessionId, op, step, threw, error) ==
  IF threw THEN Resp(500, error, st, "done")
  ELSE IF step = "lifeline"
    THEN LET u == updateSessionMetadata(st, sessionId,
                    JObj([currentStep |->
                            JStr(IF op = "makeChoice" THEN "Generating next pivotal moment"
                                 ELSE "Generating pivotal moment")]))
         IN  IF u.ok THEN Resp(0, "", u.store, "moment")
             ELSE Resp(500, u.error, st, "done")
  ELSE LET u == updateSessionMetadata(st, sessionId,
                  JObj([currentStep |-> JStr("Awaiting choice")]))
       IN  IF u.ok THEN Resp(200, "", u.store, "done")
           ELSE Resp(500, u.error, st, "done")

----------------------------------------------------------------------------
(* Generation backend (lib/openai), as the executor sees it *)

\* the choices of a pivotal moment
MomentChoices ==
  JArr(<<JObj([id |-> JStr("choice-a"), title |-> JStr("Stay")]),
         JObj([id |-> JStr("choice-b"), title |-> JStr("Leave")])>>)

\* what JSON.parse of a completion can yield for an agent
BackendValues(cfg) ==
  CASE cfg.id = "historicalContext" -> {JObj([country |-> JStr("Florence")])}
    [] cfg.id = "personaGeneration" ->
         {JObj([options |-> JArr(<<JObj([id |-> JStr("persona-1")])>>)])}
    [] cfg.id = "lifelineGeneration" ->
         {JObj([id |-> JStr("lifeline-1"), endAge |-> JNum(15)]),
          JObj([id |-> JStr("lifeline-2"), endAge |-> JNum(30)])}
    [] cfg.id = "pivotalMomentGeneration" ->
         {JObj([id |-> JStr("moment-1")]),
          JObj([id |-> JStr("moment-2"), characterDied |-> JBool(TRUE),
                choices |-> MomentChoices]),
          JObj([id |-> JStr("moment-3"), choices |-> MomentChoices])}
    [] cfg.id = "imagePromptGeneration" ->
         {JObj([id |-> JStr("prompt-1"), prompt |-> JStr("a street")])}
    [] cfg.id = "imageGeneration" ->
         {JObj([url |-> JStr("https://img/1"), revisedPrompt |-> Undefined]),
          JObj([url |-> JStr("https://img/1"), revisedPrompt |-> JStr("a busy street")])}
    [] OTHER -> {JNum(5), JObj([v |-> JNum(5)])}

AllBackendValues == UNION {BackendValues(cfg) : cfg \in ExecConfigs}

\* Date.now() as read by executeImageAgent
DateNow == {"1762300000000", "1762300000001"}

\* the message of the error the client raises when its request times out
TimeoutMsg == "Request timed out."

\* the messages of the errors the client raises: transport/auth, timeout, and
\* unparseable content
BackendFailures == {"Connection error.", TimeoutMsg, "Unexpected end of JSON input"}

\* the error generateJSONCompletion / generateImage rethrow
BackendErrorMsg(cfg, inner) ==
  IF cfg.type = "imageGeneration" THEN "Failed to generate image: " \o inner
  ELSE "Failed to parse JSON response: " \o inner

----------------------------------------------------------------------------
(* Generic agent executor (agentExecutor) *)

\* String(value)
ToStr(v) ==
  CASE v.t = "number" -> ToString(v.n)
    [] v.t = "string" -> v.s
    [] v.t = "boolean" -> IF v.b THEN "true" ELSE "false"
    [] v.t = "null" -> "null"
    [] v.t = "undefined" -> "undefined"
    [] OTHER -> "[object Object]"

\* buildPromptVariables taking the age range from the first lifeline
buildPromptVariables_firstLifeline(inputData, st, sessionId) ==
  LET session == readSession(st, sessionId)
      part(k) == Prop(session, k)
      absent(v) == v.t \in {"undefined", "null"}
      lifelines == part("lifelines")
      pivotalMoments == part("pivotalMoments")
  IN  IF \E k \in {"lifelines", "choices", "pivotalMoments", "imagePrompts",
                   "config", "metadata", "input"} : absent(part(k))
        THEN [ok |-> FALSE, error |-> TypeErrorMsg, variables |-> <<>>]
        ELSE [ok |-> TRUE, error |-> "",
              variables |->
                [momentNumber |->
                   IF pivotalMoments.t = "array" /\ Len(pivotalMoments.a) > 0
                     THEN ToString(Len(pivotalMoments.a) + 1) ELSE "1",
                 expectedStartAge |->
                   IF lifelines.t = "array" /\ Len(lifelines.a) > 0
                     THEN ToStr(OptProp(LastOf_first(lifelines), "endAge"))
                     ELSE "0"]]

\* buildPromptVariables(inputData, sessionId): the derived variables the
\* model keeps, or the TypeError of reading .length / a property of an
\* absent part of the session
buildPromptVariables(inputData, st, sessionId) ==
  LET session == readSession(st, sessionId)
      part(k) == Prop(session, k)
      absent(v) == v.t \in {"undefined", "null"}
      lifelines == part("lifelines")
      pivotalMoments == part("pivotalMoments")
  IN  IF \E k \in {"lifelines", "choices", "pivotalMoments", "imagePrompts",
                   "config", "metadata", "input"} : absent(part(k))
        THEN [ok |-> FALSE, error |-> TypeErrorMsg, variables |-> <<>>]
        ELSE [ok |-> TRUE, error |-> "",
              variables |->
                [momentNumber |->
                   IF pivotalMoments.t = "array" /\ Len(pivotalMoments.a) > 0
                     THEN ToString(Len(pivotalMoments.a) + 1) ELSE "1",
                 expectedStartAge |->
                   IF lifelines.t = "array" /\ Len(lifelines.a) > 0
                     THEN ToStr(OptProp(LastOf(lifelines), "endAge"))
                     ELSE "0"]]

\* the log entry of the try block (summaries of input and output left out)
SuccessLog(cfg) == JObj([agentId |-> JStr(cfg.id), success |-> JBool(TRUE)])

\* the log entry of the catch block
FailureLog(cfg, message) ==
  JObj([agentId |-> JStr(cfg.id), success |-> JBool(FALSE), error |-> JStr(message)])

\* a catch block that logs the failure and throws an error of its own
CatchBlock_wraps(st, cfg, sessionId, message) ==
  LET logged == addExecutionLog(st, sessionId, FailureLog(cfg, message))
  IN  IF logged.ok THEN [store |-> logged.store, error |-> "Agent execution failed"]
      ELSE [store |-> st, error |-> logged.error]

\* a catch block that also records the failure as the session's step
CatchBlock_marksStep(st, cfg, sessionId, message) ==
  LET logged == addExecutionLog(st, sessionId, FailureLog(cfg, message))
  IN  IF logged.ok
        THEN [store |-> updateSessionMetadata(logged.store, sessionId,
                          JObj([currentStep |-> JStr("failed")])).store,
              error |-> message]
      ELSE [store |-> st, error |-> logged.error]

\* the catch block of executeAgent: the store it leaves and the message of
\* the error that leaves executeAgent (addExecutionLog may throw in turn)
CatchBlock(st, cfg, sessionId, message) ==
  LET logged == addExecutionLog(st, sessionId, FailureLog(cfg, message))
  IN  IF logged.ok THEN [store |-> logged.store, error |-> message]
      ELSE [store |-> st, error |-> logged.error]

\* executeImageAgent's return value
ImageOutput(result, now) ==
  JObj([id |-> JStr("image-" \o now), url |-> Prop(result, "url"),
        revisedPrompt |-> Prop(result, "revisedPrompt"),
        sourceType |-> JStr("unknown"), sourceId |-> JStr("")])

\* steps 4 and 5 of executeAgent's try block, and the catch block when one throws
AfterBackend(st, cfg, sessionId, output) ==
  LET written == writeAgentOutput(st, sessionId, cfg.outputField, output)
      logged == addExecutionLog(written.store, sessionId, SuccessLog(cfg))
  IN  IF ~written.ok
        THEN [ok |-> FALSE, raised |-> written.error]
               @@ CatchBlock(st, cfg, sessionId, written.error)
      ELSE IF ~logged.ok
        THEN [ok |-> FALSE, raised |-> logged.error]
               @@ CatchBlock(written.store, cfg, sessionId, logged.error)
      ELSE [ok |-> TRUE, raised |-> "", store |-> logged.store, error |-> ""]

----------------------------------------------------------------------------
(* Image service (imageService.generateHistoricalImage) *)

\* String.prototype.startsWith
StartsWith(s, prefix) ==
  Len(s) >= Len(prefix) /\ SubSeq(s, 1, Len(prefix)) = prefix

\* getImageFilePath(sessionId, imageId), relative to the working directory
getImageFilePath(sessionId, imageId) ==
  "sessions/" \o sessionId \o "/" \o ToStr(imageId) \o ".png"

\* the patch keeping only the image it patches
patchLatestImage_dropsEarlier(session, sourceType, sourceId) ==
  LET images == Prop(session, "images")
  IN  IF images.t # "array" \/ images.a = <<>> THEN [ok |-> FALSE, session |-> session]
      ELSE LET latestImage == images.a[Len(images.a)]
           IN  IF latestImage.t \notin {"object", "array"}
                 THEN [ok |-> FALSE, session |-> session]
               ELSE [ok |-> TRUE,
                     session |->
                       WithProp(session, "images",
                         [images EXCEPT !.a =
                            <<WithProp(WithProp(latestImage, "sourceType", JStr(sourceType)),
                                       "sourceId", JStr(sourceId))>>])]

\* the session object generateHistoricalImage holds once it has read the
\* session and set sourceType and sourceId on the last image; not ok when the
\* assignment throws a TypeError (no last image)
patchLatestImage(session, sourceType, sourceId) ==
  LET images == Prop(session, "images")
  IN  IF images.t # "array" \/ images.a = <<>> THEN [ok |-> FALSE, session |-> session]
      ELSE LET latestImage == images.a[Len(images.a)]
           IN  IF latestImage.t \notin {"object", "array"}
                 THEN [ok |-> FALSE, session |-> session]
               ELSE [ok |-> TRUE,
                     session |->
                       WithProp(session, "images",
                         [images EXCEPT !.a[Len(images.a)] =
                            WithProp(WithProp(latestImage, "sourceType", JStr(sourceType)),
                                     "sourceId", JStr(sourceId))])]

\* the held session object once downloadImage has resolved: filePath set on
\* the last image and a data: url cleared; not ok when url.startsWith throws
\* (the catch block then skips the write)
savedSession(held, sessionId) ==
  LET images == Prop(held, "images")
      latestImage == images.a[Len(images.a)]
      imageFilePath == getImageFilePath(sessionId, Prop(latestImage, "id"))
      withPath == WithProp(latestImage, "filePath", JStr(imageFilePath))
      url == Prop(latestImage, "url")
  IN  IF url.t # "string" THEN [ok |-> FALSE, session |-> held]
      ELSE [ok |-> TRUE,
            session |->
              WithProp(held, "images",
                [images EXCEPT !.a[Len(images.a)] =
                   IF StartsWith(url.s, "data:") THEN WithProp(withPath, "url", JStr(""))
                   ELSE withPath])]

----------------------------------------------------------------------------
(* Workflow loop (scripts/test-workflow, main).  Fields of an output that    *)
(* the script only prints are left out of the modelled values.               *)

\* agentConfig.name
AgentName(agentId) ==
  CASE agentId = "historicalContext" -> "Historical Context Agent"
    [] agentId = "personaGeneration" -> "Persona Generation Agent"
    [] agentId = "lifelineGeneration" -> "Lifeline Generation Agent"
    [] agentId = "pivotalMomentGeneration" -> "Pivotal Moment Agent"
    [] agentId = "imagePromptGeneration" -> "Image Prompt Generation Agent"
    [] OTHER -> "Image Generation Agent"

\* the list the script asks the user to select from once the agent's service
\* has returned: personas.options, moment.choices; undefined for an agent
\* without a selection
Selectable(session, currentAgent) ==
  IF currentAgent = "personaGeneration"
    THEN OptProp(Prop(session, "personaOptions"), "options")
  ELSE IF currentAgent = "pivotalMomentGeneration"
    THEN OptProp(LastOf(Prop(session, "pivotalMoments")), "choices")
  ELSE Undefined

\* updateSessionMetadata(sessionId, {currentStep: agentConfig.name}) at the
\* end of an iteration, and the wait for approval that follows
loopStepDone(st, sessionId, currentAgent) ==
  LET u == updateSessionMetadata(st, sessionId,
             JObj([currentStep |-> JStr(AgentName(currentAgent))]))
  IN  IF u.ok THEN [pc |-> "approve", store |-> u.store, error |-> ""]
      ELSE [pc |-> "failed", store |-> st, error |-> u.error]

\* the iteration from the return of the agent's service to its next await:
\* the wait for the user's selection, or the end of the iteration
loopOutput(st, sessionId, currentAgent) ==
  IF currentAgent \in {"personaGeneration", "pivotalMomentGeneration"}
    THEN IF Selectable(readSession(st, sessionId), currentAgent).t = "array"
           THEN [pc |-> "select", store |-> st, error |-> ""]
           ELSE [pc |-> "failed", store |-> st, error |-> TypeErrorMsg]
  ELSE loopStepDone(st, sessionId, currentAgent)

\* pivotalMomentCount >= maxMoments on the session read after the choice
loopCeiling(session) ==
  LengthAtLeast(Prop(session, "pivotalMoments"),
                OrElse(Prop(Prop(session, "config"), "maxPivotalMoments"), JNum(5)))

\* the user's answer pick (an index of the list shown) is recorded; the loop
\* is left when the ceiling is reached, else the iteration ends
loopSelect(st, sessionId, currentAgent, pick) ==
  LET session == readSession(st, sessionId)
      chosen == Selectable(session, currentAgent).a[pick]
  IN  IF currentAgent = "personaGeneration"
        THEN IF chosen.t \in {"undefined", "null"}
               THEN [pc |-> "failed", store |-> st, error |-> TypeErrorMsg]
             ELSE loopStepDone(setSelectedPersona(st, sessionId, chosen).store,
                               sessionId, currentAgent)
      ELSE IF chosen.t \in {"undefined", "null"}
        THEN [pc |-> "failed", store |-> st, error |-> TypeErrorMsg]
      ELSE LET moment == LastOf(Prop(session, "pivotalMoments"))
               added == addUserChoice(st, sessionId,
                          JObj([pivotalMomentId |-> Prop(moment, "id"),
                                choiceId |-> Prop(chosen, "id"),
                                choiceTitle |-> Prop(chosen, "title")]))
           IN  IF ~added.ok THEN [pc |-> "failed", store |-> st, error |-> added.error]
               ELSE IF loopCeiling(readSession(added.store, sessionId))
                 THEN [pc |-> "leave", store |-> added.store, error |-> ""]
               ELSE loopStepDone(added.store, sessionId, currentAgent)

\* after the loop: endSession(sessionId, 'completed', 'max_moments')
loopEnd(st, sessionId) ==
  LET e == endSession(st, sessionId, "completed", JStr("max_moments"))
  IN  IF e.ok THEN [pc |-> "ended", store |-> e.store, error |-> ""]
      ELSE [pc |-> "failed", store |-> st, error |-> e.error]

----------------------------------------------------------------------------
(* Inputs *)

\* generateSessionId() within one clock second
SessionIds == {"session-20251105-101500"}

SessionInputs == {JObj([date |-> JStr("1450"), location |-> JStr("Florence")])}

\* the config argument of createSession
DefaultConfig == JObj(<<>>)
SessionConfigs ==
  {DefaultConfig, JObj([maxPivotalMoments |-> JNum(0)]),
   JObj([maxPivotalMoments |-> JNum(1)]), JObj([maxPivotalMoments |-> JNum(2)])}

Personas == {JObj([id |-> JStr("persona-1")])}

\* pivotal moments as addPivotalMoment receives them
MomentValues ==
  {JObj([id |-> JStr("moment-1")]),
   JObj([id |-> JStr("moment-2"), characterDied |-> JBool(TRUE)]),
   JObj([id |-> JStr("moment-3"), characterDied |-> JBool(FALSE)])}

\* a second session, created in the next clock second, and an id no session has
OtherSessionId == "session-20251105-101501"
UnknownSessionId == "session-20240101-000000"

\* configurations with a ceiling of pivotal moments below the default
CeilingConfigs ==
  {JObj([maxPivotalMoments |-> JNum(1)]), JObj([maxPivotalMoments |-> JNum(2)])}

\* session objects handed to writeSession: a session as createEmptySession
\* builds it, a session read from the store, and that session with the
\* output of the image agent pushed when the backend sent no revisedPrompt
LayoutDocs(sessionId) ==
  LET created == createEmptySession(sessionId, CHOOSE i \in SessionInputs : TRUE,
                                    DefaultConfig)
      read == JSONRoundTrip(WithProp(created, "historicalContext",
                                     JObj([country |-> JStr("Florence")])))
  IN  {created, read,
       WithProp(read, "images",
                Push(Prop(read, "images"),
                     JObj([id |-> JStr("image-1762300000000"),
                           url |-> JStr("https://img/1"),
                           revisedPrompt |-> Undefined])))}

\* what the flat file of a session holds when there is one
LegacyDoc(sessionId) ==
  JSONRoundTrip(WithProp(createEmptySession(sessionId, CHOOSE i \in SessionInputs : TRUE,
                                            DefaultConfig),
                         "selectedPersona", JObj([id |-> JStr("persona-1")])))

\* a sessions directory that holds flat files for the sessions given
LegacyFiles(sessionIds) ==
  [f \in {getOldSessionFilePath(s) : s \in sessionIds} |->
     LegacyDoc(CHOOSE s \in sessionIds : getOldSessionFilePath(s) = f)]

\* pivotal moments a session holds when a make-choice request arrives
RouteMoments ==
  {JObj([id |-> JStr("moment-1"), choices |-> MomentChoices]),
   JObj([id |-> JStr("moment-1"), choices |-> MomentChoices,
         characterDied |-> JBool(TRUE)])}

\* ids named by make-choice and select-persona requests
RequestMomentIds == {"moment-1", "moment-2", "moment-9"}
RequestChoiceIds == {"choice-a", "choice-b"}
RequestPersonaIds == {"persona-1", "persona-9"}

\* what generateHistoricalImage is asked to illustrate
ImageSources == {[sourceType |-> "lifeline", sourceId |-> "lifeline-1"]}

\* the completions of the image pipeline's agents
ImageBackendValues ==
  {JObj([id |-> JStr("prompt-1"), prompt |-> JStr("a street")]),
   JObj([url |-> JStr("https://img/1"), revisedPrompt |-> JStr("a busy street")])}

\* the config the workflow script creates its session with
\* (GAME_CONFIG.defaultPivotalMoments, GAME_CONFIG.defaultPersonaOptions)
LoopConfig ==
  JObj([maxPivotalMoments |-> JNum(5), numberOfPersonaOptions |-> JNum(4),
        generateImages |-> JBool(FALSE)])

\* what the backend returns to the agents of the workflow loop
LoopBackendValues ==
  {JObj([country |-> JStr("Florence")]),
   JObj([options |-> JArr(<<JObj([id |-> JStr("persona-1")])>>)]),
   JObj([id |-> JStr("lifeline-1"), endAge |-> JNum(15)]),
   JObj([id |-> JStr("moment-1")]),
   JObj([id |-> JStr("moment-2"), characterDied |-> JBool(TRUE), choices |-> MomentChoices]),
   JObj([id |-> JStr("moment-3"), choices |-> MomentChoices])}

\* arguments of endSession and updateSessionMetadata
EndStatuses == {"completed", "failed"}
EndReasons == {Undefined}
MetadataUpdates == {JObj([status |-> JStr("active")])}

\* what the backend returns to the agents the route handlers run
RouteBackendValues ==
  {JObj([id |-> JStr("lifeline-2"), endAge |-> JNum(30)]),
   JObj([id |-> JStr("moment-2"), characterDied |-> JBool(TRUE), choices |-> MomentChoices])}

\* the callers of executeAgent; one of them runs in a sequential workflow
Callers == {1, 2}
SeqCallers == {1}

\* set-target output paths: those of the registry and of the probes, and a deeper one
SetPaths == {"historicalContext", "personaOptions", "a.b", "x.y.z"}

\* outputs handed to writeAgentOutput directly
WriteValues == {JNum(5), JObj([v |-> JNum(5)]), JObj([w |-> JNum(1)])}

\* paths handed to setNestedValue and getNestedValue directly: the set-target
\* paths, paths of fields a new session holds or lacks, a path through a
\* string and a path through an array
NestedPaths ==
  SetPaths \cup {"input.date", "metadata.endTime", "metadata.status.x", "lifelines.x"}
NestedValues == WriteValues \cup {Undefined}

\* rule lists of configurations the AgentConfig type admits
HypRules ==
  [condition : {"always", "userSelection"},
   nextAgentId : {"lifelineGeneration", "imageGeneration"}]
    \cup [condition : {"endCondition", "custom"}, nextAgentId : {"historicalContext"}]
RuleLists == UNION {[1..n -> HypRules] : n \in 0..MaxRules}
HypConfigs(id) ==
  {[AGENTS[id] EXCEPT !.nextAgentRules = r, !.requiresUserInput = b] :
     r \in RuleLists, b \in BOOLEAN}
HypAgentIds == {"personaGeneration", "pivotalMomentGeneration"}

\* ids handed to getAgentConfig: the registered ones and one that is not
LookupIds == AgentIds \cup {"unknownAgent"}

----------------------------------------------------------------------------
(* State *)

\* an executeAgent call: where it stands (pc), its arguments, how it ended
\* (outcome, the returned value or the message of the error thrown), and as
\* history the session it found (doc0), the backend calls it made and the
\* message of the error first raised inside it (raised)
NoCall ==
  [pc |-> "idle", agent |-> "none", sid |-> "none", outcome |-> "none", error |-> "",
   value |-> Undefined, backendCalls |-> 0, doc0 |-> Undefined, raised |-> "",
   prompt |-> <<>>]

\* a writeAgentOutput call: its arguments, whether it returned, the store it
\* found, whether the call before it was the same call, and the calls so far
NoWrite ==
  [called |-> FALSE, ok |-> FALSE, sid |-> "none", field |-> "none", value |-> Undefined,
   before |-> <<>>, repeat |-> FALSE, count |-> 0]

NoEval ==
  [called |-> FALSE, agentId |-> "none", requiresUserInput |-> FALSE, rules |-> <<>>,
   sid |-> "none", flag |-> FALSE, result |-> "none"]

\* a route handler or service call: which one (op), where it stands (pc), the
\* session and the artifact or persona id it names, the response status and
\* error message it ended with, and the session object it holds across an
\* await (held)
NoTask ==
  [op |-> "none", pc |-> "idle", sid |-> "none", arg |-> "none", status |-> 0,
   error |-> "", held |-> Undefined]

NoOp == [op |-> "none", sid |-> "none"]
Did(op, sessionId) == [op |-> op, sid |-> sessionId]

\* a finished call's record is dropped when anything else happens
Retire(e) == [c \in DOMAIN e |-> IF e[c].pc = "done" THEN NoCall ELSE e[c]]

\* no executeAgent call is suspended at the backend
Quiet == \A c \in Callers : exec[c].pc # "await"

\* caller c is inside an invocation
Busy(c) == exec[c].pc = "await" \/ task[c].pc \notin {"idle", "done"}
OthersBusy(c) == \E d \in Callers \ {c} : Busy(d)

NoAppends == [f \in AppendFields |-> 0]

Init ==
  /\ store = <<>>
  /\ exec = [c \in Callers |-> NoCall]
  /\ nsucc = [s \in SessionIds |-> NoAppends]
  /\ ctl = NoEval
  /\ wr = NoWrite
  /\ task = [c \in Callers |-> NoTask]
  /\ last = NoOp
  /\ overlapped = FALSE

----------------------------------------------------------------------------
(* Operations *)

\* createSession(input, config): writes the new document, whatever the file held
CreateSession(sessionId, input, config) ==
  /\ store' = (sessionId :> JSONRoundTrip(createEmptySession(sessionId, input, config)))
                @@ store
  /\ nsucc' = [nsucc EXCEPT ![sessionId] = NoAppends]
  /\ exec' = Retire(exec)
  /\ ctl' = NoEval
  /\ last' = Did("createSession", sessionId)
  /\ UNCHANGED <<wr, task, overlapped>>

\* setSelectedPersona(sessionId, persona) on an existing session
SetSelectedPersona(sessionId, persona) ==
  /\ SessionExists(store, sessionId)
  /\ Prop(readSession(store, sessionId), "selectedPersona") # persona
  /\ store' = setSelectedPersona(store, sessionId, persona).store
  /\ exec' = Retire(exec)
  /\ ctl' = NoEval
  /\ last' = Did("setSelectedPersona", sessionId)
  /\ UNCHANGED <<nsucc, wr, task, overlapped>>

\* addPivotalMoment(sessionId, moment) on an existing session
AddPivotalMoment(sessionId, moment) ==
  /\ SessionExists(store, sessionId)
  /\ Len(Prop(readSession(store, sessionId), "pivotalMoments").a) < MaxMoments
  /\ store' = addPivotalMoment(store, sessionId, moment).store
  /\ exec' = Retire(exec)
  /\ ctl' = NoEval
  /\ last' = Did("addPivotalMoment", sessionId)
  /\ UNCHANGED <<nsucc, wr, task, overlapped>>

\* executeAgent recording the step in the session before it calls the backend
ExecCall_marksStep(c, cfg, sessionId) ==
  /\ exec[c].pc \in {"idle", "done"}
  /\ LET in == getAgentInput(store, sessionId, cfg.inputFields)
         bp == buildPromptVariables(in.input, store, sessionId)
         begun == [pc |-> "await", agent |-> cfg.id, sid |-> sessionId,
                   outcome |-> "none", error |-> "", value |-> Undefined,
                   backendCalls |-> 0,
                   doc0 |-> IF SessionExists(store, sessionId)
                              THEN readSession(store, sessionId) ELSE Undefined,
                   raised |-> "",
                   prompt |-> IF in.ok /\ bp.ok THEN bp.variables ELSE <<>>]
     IN  IF in.ok /\ bp.ok
           THEN /\ exec' = [exec EXCEPT ![c] = [begun EXCEPT !.backendCalls = 1]]
                /\ store' = updateSessionMetadata(store, sessionId,
                                                  JObj([currentStep |-> JStr(cfg.id)])).store
           ELSE LET message == IF in.ok THEN bp.error ELSE in.error
                    caught == CatchBlock(store, cfg, sessionId, message)
                IN  /\ store' = caught.store
                    /\ exec' = [exec EXCEPT ![c] =
                                  [begun EXCEPT !.pc = "done", !.outcome = "threw",
                                                !.error = caught.error,
                                                !.raised = message]]
  /\ last' = Did("executeAgent", sessionId)
  /\ overlapped' = (overlapped \/ OthersBusy(c))
  /\ UNCHANGED <<nsucc, ctl, wr>>

\* executeAgent up to its await, called on the store st that the caller has
\* just written: getAgentInput, buildPromptVariables and the call of the
\* backend, or the catch block when one of the first two throws
ExecCallOn(st, c, cfg, sessionId) ==
  /\ exec[c].pc \in {"idle", "done"}
  /\ LET in == getAgentInput(st, sessionId, cfg.inputFields)
         bp == buildPromptVariables(in.input, st, sessionId)
         begun == [pc |-> "await", agent |-> cfg.id, sid |-> sessionId,
                   outcome |-> "none", error |-> "", value |-> Undefined,
                   backendCalls |-> 0,
                   doc0 |-> IF SessionExists(st, sessionId)
                              THEN readSession(st, sessionId) ELSE Undefined,
                   raised |-> "",
                   prompt |-> IF in.ok /\ bp.ok THEN bp.variables ELSE <<>>]
     IN  IF in.ok /\ bp.ok
           THEN /\ exec' = [exec EXCEPT ![c] = [begun EXCEPT !.backendCalls = 1]]
                /\ store' = st
           ELSE LET message == IF in.ok THEN bp.error ELSE in.error
                    caught == CatchBlock(st, cfg, sessionId, message)
                IN  /\ store' = caught.store
                    /\ exec' = [exec EXCEPT ![c] =
                                  [begun EXCEPT !.pc = "done", !.outcome = "threw",
                                                !.error = caught.error,
                                                !.raised = message]]
  /\ last' = Did("executeAgent", sessionId)
  /\ overlapped' = (overlapped \/ OthersBusy(c))
  /\ UNCHANGED <<nsucc, ctl, wr>>

\* executeAgent up to its await: getAgentInput, buildPromptVariables and the
\* call of the backend, or the catch block when one of the first two throws
ExecCall(c, cfg, sessionId) == ExecCallOn(store, c, cfg, sessionId)

\* executeAgent on a session that holds fewer than MaxExec log entries
ExecBegin(c, cfg, sessionId) ==
  /\ SessionExists(store, sessionId) =>
       Len(Prop(readSession(store, sessionId), "executionLogs").a) < MaxExec
  /\ ExecCall(c, cfg, sessionId)

\* executeAgent called on its own
ExecStart(c, cfg, sessionId) == ExecBegin(c, cfg, sessionId) /\ UNCHANGED task

\* the backend call returns: writeAgentOutput, addExecutionLog, return output
ExecReturn(c, raw, now) ==
  /\ exec[c].pc = "await"
  /\ LET cfg == ConfigOf(exec[c].agent)
         sessionId == exec[c].sid
         output == IF cfg.type = "imageGeneration" THEN ImageOutput(raw, now) ELSE raw
         after == AfterBackend(store, cfg, sessionId, output)
     IN  /\ raw \in BackendValues(cfg)
         /\ cfg.type # "imageGeneration" => now = CHOOSE n \in DateNow : TRUE
         /\ store' = after.store
         /\ exec' = [exec EXCEPT ![c] =
                       IF after.ok
                         THEN [@ EXCEPT !.pc = "done", !.outcome = "returned",
                                        !.value = output]
                         ELSE [@ EXCEPT !.pc = "done", !.outcome = "threw",
                                        !.error = after.error,
                                        !.raised = after.raised]]
         /\ nsucc' = IF after.ok /\ cfg.outputField \in AppendFields
                       THEN [nsucc EXCEPT ![sessionId][cfg.outputField] = @ + 1]
                       ELSE nsucc
  /\ last' = Did("executeAgent", exec[c].sid)
  /\ UNCHANGED <<ctl, wr, task, overlapped>>

\* the backend call throws: the catch block, and the error is rethrown
ExecThrow(c, inner) ==
  /\ exec[c].pc = "await"
  /\ LET cfg == ConfigOf(exec[c].agent)
         message == BackendErrorMsg(cfg, inner)
         caught == CatchBlock(store, cfg, exec[c].sid, message)
     IN  /\ store' = caught.store
         /\ exec' = [exec EXCEPT ![c] =
                       [@ EXCEPT !.pc = "done", !.outcome = "threw",
                                 !.error = caught.error, !.raised = message]]
  /\ last' = Did("executeAgent", exec[c].sid)
  /\ UNCHANGED <<nsucc, ctl, wr, task, overlapped>>

\* getNextAgent recording the agent it was asked about in the session
GetNext_marksStep(currentAgentId, sessionId, flag) ==
  /\ SessionExists(store, sessionId)
  /\ ~ctl.called
  /\ ctl' = [called |-> TRUE, agentId |-> currentAgentId,
             requiresUserInput |-> AGENTS[currentAgentId].requiresUserInput,
             rules |-> AGENTS[currentAgentId].nextAgentRules,
             sid |-> sessionId, flag |-> flag,
             result |-> getNextAgent(currentAgentId, readSession(store, sessionId), flag)]
  /\ store' = updateSessionMetadata(store, sessionId,
                                    JObj([currentStep |-> JStr(currentAgentId)])).store
  /\ exec' = Retire(exec)
  /\ last' = NoOp
  /\ UNCHANGED <<nsucc, wr, task, overlapped>>

\* getNextAgent(currentAgentId, session, flag) on a stored session
GetNext(currentAgentId, sessionId, flag) ==
  /\ SessionExists(store, sessionId)
  /\ ~ctl.called
  /\ ctl' = [called |-> TRUE, agentId |-> currentAgentId,
             requiresUserInput |-> AGENTS[currentAgentId].requiresUserInput,
             rules |-> AGENTS[currentAgentId].nextAgentRules,
             sid |-> sessionId, flag |-> flag,
             result |-> getNextAgent(currentAgentId, readSession(store, sessionId), flag)]
  /\ exec' = Retire(exec)
  /\ last' = NoOp
  /\ UNCHANGED <<store, nsucc, wr, task, overlapped>>

\* the same decision for a configuration the registry does not hold
GetNextFor(cfg, sessionId, flag) ==
  /\ SessionExists(store, sessionId)
  /\ ~ctl.called
  /\ ctl' = [called |-> TRUE, agentId |-> cfg.id,
             requiresUserInput |-> cfg.requiresUserInput,
             rules |-> cfg.nextAgentRules,
             sid |-> sessionId, flag |-> flag,
             result |-> getNextAgentFor(cfg, cfg.id, readSession(store, sessionId), flag)]
  /\ exec' = Retire(exec)
  /\ last' = NoOp
  /\ UNCHANGED <<store, nsucc, wr, task, overlapped>>

\* a new request of caller c: the records of the other callers' finished
\* requests are dropped
Begin(c, record) ==
  [d \in Callers |-> IF d = c THEN record
                     ELSE IF task[d].pc = "done" THEN NoTask ELSE task[d]]

\* POST make-choice up to its first await or its response
MakeChoice(c, sessionId, pivotalMomentId, choiceId) ==
  /\ ~Busy(c)
  /\ LET r == makeChoice(store, sessionId, pivotalMomentId, choiceId)
     IN  /\ store' = r.store
         /\ task' = Begin(c, [op |-> "makeChoice", pc |-> r.next, sid |-> sessionId,
                               arg |-> pivotalMomentId, status |-> r.status,
                               error |-> r.error, held |-> Undefined])
  /\ exec' = [exec EXCEPT ![c] = NoCall]
  /\ last' = Did("makeChoice", sessionId)
  /\ overlapped' = (overlapped \/ OthersBusy(c))
  /\ UNCHANGED <<nsucc, ctl, wr>>

\* POST select-persona up to its first await or its response
SelectPersona(c, sessionId, personaId) ==
  /\ ~Busy(c)
  /\ LET r == selectPersona(store, sessionId, personaId)
     IN  /\ store' = r.store
         /\ task' = Begin(c, [op |-> "selectPersona", pc |-> r.next, sid |-> sessionId,
                               arg |-> personaId, status |-> r.status,
                               error |-> r.error, held |-> Undefined])
  /\ exec' = [exec EXCEPT ![c] = NoCall]
  /\ last' = Did("selectPersona", sessionId)
  /\ overlapped' = (overlapped \/ OthersBusy(c))
  /\ UNCHANGED <<nsucc, ctl, wr>>

\* the agent generateLifeline / generatePivotalMoment runs
StepAgent(step) ==
  IF step = "lifeline" THEN getAgentConfig("lifelineGeneration")
  ELSE getAgentConfig("pivotalMomentGeneration")

\* a handler calls generateLifeline or generatePivotalMoment: executeAgent
\* runs up to its await
RouteAgentStart(c) ==
  /\ task[c].pc \in {"lifeline", "moment"}
  /\ exec[c].pc = "idle"
  /\ ExecStart(c, StepAgent(task[c].pc), task[c].sid)

\* a handler resumes after generateLifeline or generatePivotalMoment settled
\* (sessions with config.generateImages unset: generateLifeline adds no image)
RouteAgentDone(c) ==
  /\ task[c].pc \in {"lifeline", "moment"}
  /\ exec[c].pc = "done"
  /\ SessionExists(store, task[c].sid) =>
       ~Truthy(Prop(Prop(readSession(store, task[c].sid), "config"), "generateImages"))
  /\ LET r == afterAgent(store, task[c].sid, task[c].op, task[c].pc,
                         exec[c].outcome = "threw", exec[c].error)
     IN  /\ store' = r.store
         /\ task' = [task EXCEPT ![c] =
                       [@ EXCEPT !.pc = r.next, !.status = r.status, !.error = r.error]]
  /\ exec' = [exec EXCEPT ![c] = NoCall]
  /\ last' = Did(task[c].op, task[c].sid)
  /\ UNCHANGED <<nsucc, ctl, wr, overlapped>>

\* endSession(sessionId, status, reason) on an existing session
EndSession(sessionId, status, reason) ==
  /\ SessionExists(store, sessionId)
  /\ store' = endSession(store, sessionId, status, reason).store
  /\ last' = Did("endSession", sessionId)
  /\ UNCHANGED <<exec, nsucc, ctl, wr, task, overlapped>>

\* updateSessionMetadata(sessionId, updates) on an existing session
UpdateSessionMetadata(sessionId, updates) ==
  /\ SessionExists(store, sessionId)
  /\ store' = updateSessionMetadata(store, sessionId, updates).store
  /\ last' = Did("updateSessionMetadata", sessionId)
  /\ UNCHANGED <<exec, nsucc, ctl, wr, task, overlapped>>

\* generateHistoricalImage(sessionId, sourceType, sourceId) up to its first
\* await: executeAgent for the imageGeneration agent
ImageStart(c, sessionId, sourceType, sourceId) ==
  /\ ~Busy(c)
  /\ ExecBegin(c, getAgentConfig("imageGeneration"), sessionId)
  /\ task' = Begin(c, [op |-> "generateHistoricalImage", pc |-> "agent",
                        sid |-> sessionId, arg |-> sourceId, sourceType |-> sourceType,
                        status |-> 0, error |-> "", held |-> Undefined])

\* generateHistoricalImage resumes after executeAgent settled: it rejects, or
\* reads the session, patches the last image and awaits downloadImage
ImageRead(c) ==
  /\ task[c].op = "generateHistoricalImage"
  /\ task[c].pc = "agent"
  /\ exec[c].pc = "done"
  /\ task' = [task EXCEPT ![c] =
                IF exec[c].outcome = "threw"
                  THEN [@ EXCEPT !.pc = "done", !.error = exec[c].error]
                ELSE IF ~Truthy(exec[c].value) THEN [@ EXCEPT !.pc = "done"]
                ELSE LET patched == patchLatestImage(readSession(store, task[c].sid),
                                                     task[c].sourceType, task[c].arg)
                     IN  IF patched.ok
                           THEN [@ EXCEPT !.pc = "download", !.held = patched.session]
                           ELSE [@ EXCEPT !.pc = "done", !.error = TypeErrorMsg]]
  /\ exec' = [exec EXCEPT ![c] = NoCall]
  /\ last' = Did("generateHistoricalImage", task[c].sid)
  /\ UNCHANGED <<store, nsucc, ctl, wr, overlapped>>

\* downloadImage resolved: the held session object is written
ImageSaved(c) ==
  /\ task[c].op = "generateHistoricalImage"
  /\ task[c].pc = "download"
  /\ LET saved == savedSession(task[c].held, task[c].sid)
     IN  store' = IF saved.ok THEN writeSession(store, task[c].sid, saved.session)
                  ELSE store
  /\ task' = [task EXCEPT ![c] = [@ EXCEPT !.pc = "done", !.held = Undefined]]
  /\ last' = Did("generateHistoricalImage", task[c].sid)
  /\ UNCHANGED <<exec, nsucc, ctl, wr, overlapped>>

\* downloadImage rejected: the catch block, nothing is written
ImageDownloadFailed(c) ==
  /\ task[c].op = "generateHistoricalImage"
  /\ task[c].pc = "download"
  /\ task' = [task EXCEPT ![c] = [@ EXCEPT !.pc = "done", !.held = Undefined]]
  /\ last' = Did("generateHistoricalImage", task[c].sid)
  /\ UNCHANGED <<store, exec, nsucc, ctl, wr, overlapped>>

\* the workflow script on a session it has created: the first iteration up
\* to the await of the agent's service (executeAgent up to its await)
LoopStart(c, sessionId) ==
  /\ ~Busy(c)
  /\ task[c].pc = "idle"
  /\ SessionExists(store, sessionId)
  /\ Len(Prop(readSession(store, sessionId), "executionLogs").a) < MaxSteps
  /\ ExecCall(c, getInitialAgent, sessionId)
  /\ task' = [task EXCEPT ![c] =
                [op |-> "workflow", pc |-> "agent", sid |-> sessionId,
                 arg |-> getInitialAgent.id, status |-> 0, error |-> "",
                 held |-> Undefined, userMadeSelection |-> FALSE,
                 ran |-> <<getInitialAgent.id>>]]

\* the agent's service has settled: the script fails with the error thrown,
\* or shows the output and waits for the user
LoopOutput(c) ==
  /\ task[c].op = "workflow"
  /\ task[c].pc = "agent"
  /\ exec[c].pc = "done"
  /\ exec[c].outcome = "returned" => Truthy(exec[c].value)
  /\ LET r == IF exec[c].outcome = "threw"
                THEN [pc |-> "failed", store |-> store, error |-> exec[c].error]
                ELSE loopOutput(store, task[c].sid, task[c].arg)
     IN  /\ store' = r.store
         /\ task' = [task EXCEPT ![c] = [@ EXCEPT !.pc = r.pc, !.error = r.error]]
  /\ exec' = [exec EXCEPT ![c] = NoCall]
  /\ last' = Did("workflow", task[c].sid)
  /\ UNCHANGED <<nsucc, ctl, wr, overlapped>>

\* the user answers with a valid index: the selection is recorded
LoopSelect(c, pick) ==
  /\ task[c].op = "workflow"
  /\ task[c].pc = "select"
  /\ pick \in DOMAIN Selectable(readSession(store, task[c].sid), task[c].arg).a
  /\ LET r == loopSelect(store, task[c].sid, task[c].arg, pick)
         e == IF r.pc = "leave" THEN loopEnd(r.store, task[c].sid) ELSE r
     IN  /\ store' = e.store
         /\ task' = [task EXCEPT ![c] =
                       [@ EXCEPT !.pc = e.pc, !.error = e.error,
                                 !.userMadeSelection = TRUE]]
  /\ last' = Did("workflow", task[c].sid)
  /\ UNCHANGED <<exec, nsucc, ctl, wr, overlapped>>

\* the approval arrives: getNextAgent decides, and the script ends the
\* session or starts the next iteration up to the await of its service
LoopNext(c) ==
  /\ task[c].op = "workflow"
  /\ task[c].pc = "approve"
  /\ LET sessionId == task[c].sid
         next == getNextAgent(task[c].arg, readSession(store, sessionId),
                              task[c].userMadeSelection)
     IN  IF next = Terminal
           THEN LET e == loopEnd(store, sessionId)
                IN  /\ store' = e.store
                    /\ task' = [task EXCEPT ![c] = [@ EXCEPT !.pc = e.pc, !.error = e.error]]
                    /\ last' = Did("workflow", sessionId)
                    /\ UNCHANGED <<exec, nsucc, ctl, wr, overlapped>>
         ELSE IF next \notin AgentIds
           THEN /\ task' = [task EXCEPT ![c] =
                              [@ EXCEPT !.pc = "failed", !.error = TypeErrorMsg]]
                /\ last' = Did("workflow", sessionId)
                /\ UNCHANGED <<store, exec, nsucc, ctl, wr, overlapped>>
         ELSE /\ Len(Prop(readSession(store, sessionId), "executionLogs").a) < MaxSteps
              /\ ExecCall(c, getAgentConfig(next), sessionId)
              /\ task' = [task EXCEPT ![c] =
                            [@ EXCEPT !.pc = "agent", !.arg = next,
                                      !.userMadeSelection = FALSE,
                                      !.ran = Append(@, next)]]

\* writeSession(sessionId, session), then readSession(sessionId)
WriteSession(sessionId, session) ==
  /\ store' = writeSession(store, sessionId, session)
  /\ last' = [op |-> "writeSession", sid |-> sessionId, value |-> session,
               threw |-> ~readSessionFile(store', sessionId).ok,
               got |-> readSessionFile(store', sessionId).value]
  /\ UNCHANGED <<exec, nsucc, ctl, wr, task, overlapped>>

\* readSession(sessionId) called directly
ReadSession(sessionId) ==
  /\ last' = [op |-> "readSession", sid |-> sessionId,
               threw |-> ~readSessionFile(store, sessionId).ok,
               value |-> readSessionFile(store, sessionId).value]
  /\ UNCHANGED <<store, exec, nsucc, ctl, wr, task, overlapped>>

\* migrateSessionToFolder(sessionId) called directly
MigrateSessionToFolder(sessionId) ==
  /\ store' = migrateSessionToFolder(store, sessionId).store
  /\ last' = [op |-> "migrateSessionToFolder", sid |-> sessionId,
               value |-> migrateSessionToFolder(store, sessionId).value]
  /\ UNCHANGED <<exec, nsucc, ctl, wr, task, overlapped>>

\* getAgentConfig(agentId) called directly: it returns, with the value read
GetAgentConfig(agentId) ==
  /\ ~ctl.called
  /\ last' = [op |-> "getAgentConfig", sid |-> "none", agentId |-> agentId,
               threw |-> FALSE, value |-> getAgentConfig(agentId)]
  /\ UNCHANGED <<store, exec, nsucc, ctl, wr, task, overlapped>>

\* setNestedValue(session, path, value) on the session object read from the
\* store, then getNestedValue(session, path) on that object; nothing is written
SetNested(sessionId, path, value) ==
  /\ SessionExists(store, sessionId)
  /\ LET r == setNestedValue(readSession(store, sessionId), path, value)
     IN  last' = [op |-> "setNestedValue", sid |-> sessionId, path |-> path,
                  value |-> value, threw |-> ~r.ok, obj |-> r.obj,
                  got |-> IF r.ok THEN getNestedValue(r.obj, path) ELSE Undefined]
  /\ UNCHANGED <<store, exec, nsucc, ctl, wr, task, overlapped>>

\* getNestedValue(session, path) on the session object read from the store
GetNested(sessionId, path) ==
  /\ SessionExists(store, sessionId)
  /\ last' = [op |-> "getNestedValue", sid |-> sessionId, path |-> path,
               threw |-> FALSE,
               value |-> getNestedValue(readSession(store, sessionId), path)]
  /\ UNCHANGED <<store, exec, nsucc, ctl, wr, task, overlapped>>

\* writeAgentOutput(sessionId, outputField, output) called directly
WriteOutput(sessionId, outputField, output) ==
  /\ SessionExists(store, sessionId)
  /\ wr.count < MaxWrites
  /\ LET w == writeAgentOutput(store, sessionId, outputField, output)
     IN  /\ store' = w.store
         /\ wr' = [called |-> TRUE, ok |-> w.ok, sid |-> sessionId,
                   field |-> outputField, value |-> output, before |-> store,
                   repeat |-> /\ wr.called /\ wr.ok /\ wr.sid = sessionId
                              /\ wr.field = outputField /\ wr.value = output,
                   count |-> wr.count + 1]
  /\ exec' = Retire(exec)
  /\ ctl' = NoEval
  /\ last' = Did("writeAgentOutput", sessionId)
  /\ UNCHANGED <<nsucc, task, overlapped>>

----------------------------------------------------------------------------
(* Specifications *)

\* The executor driven by one sequential caller.
Next ==
  \/ \E s \in SessionIds, i \in SessionInputs, g \in {DefaultConfig} :
       Quiet /\ CreateSession(s, i, g)
  \/ \E s \in SessionIds, p \in Personas : Quiet /\ SetSelectedPersona(s, p)
  \/ \E c \in SeqCallers, cfg \in ExecConfigs, s \in SessionIds : ExecStart(c, cfg, s)
  \/ \E c \in SeqCallers, raw \in AllBackendValues, now \in DateNow :
       ExecReturn(c, raw, now)
  \/ \E c \in SeqCallers, inner \in BackendFailures : ExecThrow(c, inner)

Spec == Init /\ [][Next]_vars

\* The controller asked about sessions that were created and then grew
\* pivotal moments.
InitController ==
  /\ \E s \in SessionIds, i \in SessionInputs, g \in SessionConfigs :
       store = (s :> JSONRoundTrip(createEmptySession(s, i, g)))
  /\ exec = [c \in Callers |-> NoCall]
  /\ nsucc = [s \in SessionIds |-> NoAppends]
  /\ ctl = NoEval
  /\ wr = NoWrite
  /\ task = [c \in Callers |-> NoTask]
  /\ last = NoOp
  /\ overlapped = FALSE

NextController ==
  \/ \E s \in SessionIds, m \in MomentValues : AddPivotalMoment(s, m)
  \/ \E a \in AgentIds, s \in SessionIds, flag \in BOOLEAN : GetNext(a, s, flag)
  \/ \E a \in HypAgentIds, s \in SessionIds, flag \in BOOLEAN :
       \E cfg \in HypConfigs(a) : GetNextFor(cfg, s, flag)
  \/ \E a \in LookupIds : GetAgentConfig(a)

SpecController == InitController /\ [][NextController]_vars

\* writeAgentOutput called directly on a created session.
InitWrite ==
  /\ \E s \in SessionIds, i \in SessionInputs :
       store = (s :> JSONRoundTrip(createEmptySession(s, i, DefaultConfig)))
  /\ exec = [c \in Callers |-> NoCall]
  /\ nsucc = [s \in SessionIds |-> NoAppends]
  /\ ctl = NoEval
  /\ wr = NoWrite
  /\ task = [c \in Callers |-> NoTask]
  /\ last = NoOp
  /\ overlapped = FALSE

NextWrite ==
  \E s \in SessionIds, f \in SetPaths \cup {"lifelines"}, v \in WriteValues :
    WriteOutput(s, f, v)

SpecWrite == InitWrite /\ [][NextWrite]_vars

\* setNestedValue and getNestedValue applied to a session as created, or as
\* one writeAgentOutput call left it.
InitNested ==
  /\ \E s \in SessionIds, i \in SessionInputs :
       LET fresh == (s :> JSONRoundTrip(createEmptySession(s, i, DefaultConfig)))
       IN  \/ store = fresh
           \/ \E f \in SetPaths \cup {"lifelines"}, v \in WriteValues :
                store = writeAgentOutput(fresh, s, f, v).store
  /\ exec = [c \in Callers |-> NoCall]
  /\ nsucc = [s \in SessionIds |-> NoAppends]
  /\ ctl = NoEval
  /\ wr = NoWrite
  /\ task = [c \in Callers |-> NoTask]
  /\ last = NoOp
  /\ overlapped = FALSE

NextNested ==
  \/ \E s \in SessionIds, f \in NestedPaths, v \in NestedValues : SetNested(s, f, v)
  \/ \E s \in SessionIds, f \in NestedPaths : GetNested(s, f)

SpecNested == InitNested /\ [][NextNested]_vars

\* A session that awaits its persona selection, and one that awaits its
\* first choice, as the store mutators leave them.
OfferedWith(sessionId, config) ==
  addPersonaOptions(
    addHistoricalContext(
      (sessionId :> JSONRoundTrip(createEmptySession(sessionId,
                                    CHOOSE i \in SessionInputs : TRUE, config))),
      sessionId, JObj([country |-> JStr("Florence")])).store,
    sessionId, JObj([options |-> JArr(<<JObj([id |-> JStr("persona-1")])>>)])).store

PlayingWith(sessionId, config, moment) ==
  addPivotalMoment(
    addLifeline(
      setSelectedPersona(OfferedWith(sessionId, config), sessionId,
                         JObj([id |-> JStr("persona-1")])).store,
      sessionId, JObj([id |-> JStr("lifeline-1"), endAge |-> JNum(15)])).store,
    sessionId, moment).store

Offered(sessionId) == OfferedWith(sessionId, DefaultConfig)

Playing(sessionId, moment) == PlayingWith(sessionId, DefaultConfig, moment)

RouteSessionIds == SessionIds \cup {OtherSessionId}

\* The route handlers, run one request at a time, and the status mutators.
InitRoutes ==
  /\ \E s \in SessionIds :
       store \in {Offered(s)} \cup {Playing(s, m) : m \in RouteMoments}
  /\ exec = [c \in Callers |-> NoCall]
  /\ nsucc = [s \in RouteSessionIds |-> NoAppends]
  /\ ctl = NoEval
  /\ wr = NoWrite
  /\ task = [c \in Callers |-> NoTask]
  /\ last = NoOp
  /\ overlapped = FALSE

NextRoutes ==
  \/ \E c \in SeqCallers, s \in SessionIds \cup {UnknownSessionId} :
       \E m \in RequestMomentIds, h \in RequestChoiceIds : MakeChoice(c, s, m, h)
  \/ \E c \in SeqCallers, s \in SessionIds \cup {UnknownSessionId} :
       \E p \in RequestPersonaIds : SelectPersona(c, s, p)
  \/ \E c \in SeqCallers : RouteAgentStart(c)
  \/ \E c \in SeqCallers, raw \in RouteBackendValues, now \in DateNow :
       ExecReturn(c, raw, now)
  \/ \E c \in SeqCallers : ExecThrow(c, TimeoutMsg)
  \/ \E c \in SeqCallers : RouteAgentDone(c)
  \/ \E c \in SeqCallers : ~Busy(c) /\ ExecStart(c, getInitialAgent, UnknownSessionId)
  \/ \E s \in SessionIds, e \in EndStatuses, r \in EndReasons : EndSession(s, e, r)
  \/ \E s \in SessionIds, u \in MetadataUpdates : UpdateSessionMetadata(s, u)

SpecRoutes == InitRoutes /\ [][NextRoutes]_vars

\* Two sessions that await a choice, each served by a caller of its own; the
\* requests of the two callers interleave at every await.
SessionOf(c) == IF c \in SeqCallers THEN CHOOSE s \in SessionIds : TRUE ELSE OtherSessionId

InitPair ==
  /\ \E m \in RouteMoments :
       store = Playing(SessionOf(1), m) @@ Playing(SessionOf(2), m)
  /\ exec = [c \in Callers |-> NoCall]
  /\ nsucc = [s \in RouteSessionIds |-> NoAppends]
  /\ ctl = NoEval
  /\ wr = NoWrite
  /\ task = [c \in Callers |-> NoTask]
  /\ last = NoOp
  /\ overlapped = FALSE

NextPair ==
  \/ \E c \in SeqCallers, m \in RequestMomentIds :
       MakeChoice(c, SessionOf(c), m, "choice-a")
  \/ \E c \in Callers \ SeqCallers : SelectPersona(c, SessionOf(c), "persona-1")
  \/ \E c \in Callers : RouteAgentStart(c)
  \/ \E c \in Callers, raw \in RouteBackendValues, now \in DateNow :
       ExecReturn(c, raw, now)
  \/ \E c \in Callers : ExecThrow(c, TimeoutMsg)
  \/ \E c \in Callers : RouteAgentDone(c)
  \/ \E s \in RouteSessionIds, r \in EndReasons : EndSession(s, "completed", r)

SpecPair == InitPair /\ [][NextPair]_vars

\* The route handlers, one request at a time with every generation call
\* succeeding, on sessions created with a low ceiling of pivotal moments.
InitCeiling ==
  /\ \E s \in SessionIds, g \in CeilingConfigs :
       store \in {OfferedWith(s, g)} \cup {PlayingWith(s, g, m) : m \in RouteMoments}
  /\ exec = [c \in Callers |-> NoCall]
  /\ nsucc = [s \in RouteSessionIds |-> NoAppends]
  /\ ctl = NoEval
  /\ wr = NoWrite
  /\ task = [c \in Callers |-> NoTask]
  /\ last = NoOp
  /\ overlapped = FALSE

NextCeiling ==
  \/ \E c \in SeqCallers, s \in SessionIds, m \in RequestMomentIds, h \in RequestChoiceIds :
       MakeChoice(c, s, m, h)
  \/ \E c \in SeqCallers, s \in SessionIds, p \in RequestPersonaIds : SelectPersona(c, s, p)
  \/ \E c \in SeqCallers : RouteAgentStart(c)
  \/ \E c \in SeqCallers, raw \in RouteBackendValues, now \in DateNow :
       ExecReturn(c, raw, now)
  \/ \E c \in SeqCallers : RouteAgentDone(c)

SpecCeiling == InitCeiling /\ [][NextCeiling]_vars

\* Two callers send make-choice requests for the one pivotal moment of one
\* session; the requests interleave at every await.
RacedMomentId == "moment-1"

InitRace ==
  /\ \E s \in SessionIds, m \in RouteMoments : store = Playing(s, m)
  /\ exec = [c \in Callers |-> NoCall]
  /\ nsucc = [s \in RouteSessionIds |-> NoAppends]
  /\ ctl = NoEval
  /\ wr = NoWrite
  /\ task = [c \in Callers |-> NoTask]
  /\ last = NoOp
  /\ overlapped = FALSE

NextRace ==
  \/ \E c \in Callers, s \in SessionIds, h \in RequestChoiceIds :
       MakeChoice(c, s, RacedMomentId, h)
  \/ \E c \in Callers : RouteAgentStart(c)
  \/ \E c \in Callers, raw \in RouteBackendValues, now \in DateNow :
       ExecReturn(c, raw, now)
  \/ \E c \in Callers : ExecThrow(c, TimeoutMsg)
  \/ \E c \in Callers : RouteAgentDone(c)

SpecRace == InitRace /\ [][NextRace]_vars

\* Image generation on a session that holds an image prompt, with a second
\* caller that runs the prompt agent or generates an image on the same session.
InitImage ==
  /\ \E s \in SessionIds :
       store = AfterBackend(Offered(s), AGENTS.imagePromptGeneration, s,
                            JObj([id |-> JStr("prompt-1"),
                                  prompt |-> JStr("a street")])).store
  /\ exec = [c \in Callers |-> NoCall]
  /\ nsucc = [s \in SessionIds |-> [NoAppends EXCEPT !.imagePrompts = 1]]
  /\ ctl = NoEval
  /\ wr = NoWrite
  /\ task = [c \in Callers |-> NoTask]
  /\ last = NoOp
  /\ overlapped = FALSE

\* the entries executeAgent has appended to the collections of a session
Appended(sessionId) ==
  nsucc[sessionId].imagePrompts + nsucc[sessionId].images

NextImage ==
  \/ \E c \in Callers, s \in SessionIds, i \in ImageSources :
       Appended(s) < MaxExec /\ ImageStart(c, s, i.sourceType, i.sourceId)
  \/ \E c \in Callers \ SeqCallers, s \in SessionIds :
       /\ Appended(s) < MaxExec
       /\ ~Busy(c)
       /\ ExecStart(c, AGENTS.imagePromptGeneration, s)
  \/ \E c \in Callers, raw \in ImageBackendValues, now \in DateNow :
       ExecReturn(c, raw, now)
  \/ \E c \in Callers : ExecThrow(c, TimeoutMsg)
  \/ \E c \in Callers : ImageRead(c)
  \/ \E c \in Callers : ImageSaved(c)
  \/ \E c \in Callers : ImageDownloadFailed(c)

SpecImage == InitImage /\ [][NextImage]_vars

\* The workflow script on the session it created.
InitLoop ==
  /\ \E s \in SessionIds, i \in SessionInputs :
       store = (s :> JSONRoundTrip(createEmptySession(s, i, LoopConfig)))
  /\ exec = [c \in Callers |-> NoCall]
  /\ nsucc = [s \in SessionIds |-> NoAppends]
  /\ ctl = NoEval
  /\ wr = NoWrite
  /\ task = [c \in Callers |-> NoTask]
  /\ last = NoOp
  /\ overlapped = FALSE

NextLoop ==
  \/ \E c \in SeqCallers, s \in SessionIds : LoopStart(c, s)
  \/ \E c \in SeqCallers, raw \in LoopBackendValues, now \in DateNow :
       ExecReturn(c, raw, now)
  \/ \E c \in SeqCallers : ExecThrow(c, TimeoutMsg)
  \/ \E c \in SeqCallers : LoopOutput(c)
  \/ \E c \in SeqCallers, pick \in 1..2 : LoopSelect(c, pick)
  \/ \E c \in SeqCallers : LoopNext(c)

SpecLoop == InitLoop /\ [][NextLoop]_vars

\* The script can take a step: the guards of the steps of NextLoop. On the
\* states of SpecLoop this is ENABLED <<NextLoop>>_vars, as every step
\* changes task or exec.
LoopCanStep ==
  \E c \in SeqCallers :
    \/ /\ task[c].pc = "idle"
       /\ exec[c].pc \in {"idle", "done"}
       /\ \E s \in SessionIds :
            /\ SessionExists(store, s)
            /\ Len(Prop(readSession(store, s), "executionLogs").a) < MaxSteps
    \/ exec[c].pc = "await"
    \/ /\ task[c].op = "workflow"
       /\ task[c].pc = "agent"
       /\ exec[c].pc = "done"
       /\ exec[c].outcome = "returned" => Truthy(exec[c].value)
    \/ /\ task[c].op = "workflow"
       /\ task[c].pc = "select"
       /\ \E pick \in 1..2 :
            pick \in DOMAIN Selectable(readSession(store, task[c].sid), task[c].arg).a
    \/ /\ task[c].op = "workflow"
       /\ task[c].pc = "approve"
       /\ LET next == getNextAgent(task[c].arg, readSession(store, task[c].sid),
                                   task[c].userMadeSelection)
          IN  \/ next = Terminal
              \/ next \notin AgentIds
              \/ /\ Len(Prop(readSession(store, task[c].sid), "executionLogs").a) < MaxSteps
                 /\ exec[c].pc \in {"idle", "done"}

\* The workflow script when every await settles: the backend answers or
\* fails, and the user answers every prompt. This is WF_vars(NextLoop), with
\* ENABLED <<NextLoop>>_vars written as LoopCanStep.
SpecLoopFair == SpecLoop /\ ([]<>~LoopCanStep \/ []<><<NextLoop>>_vars)

\* The session files of both layouts: a sessions directory that holds, for
\* each session, a flat file of the old layout or none, written and read.
InitLayout ==
  /\ \E old \in SUBSET RouteSessionIds : store = LegacyFiles(old)
  /\ exec = [c \in Callers |-> NoCall]
  /\ nsucc = [s \in RouteSessionIds |-> NoAppends]
  /\ ctl = NoEval
  /\ wr = NoWrite
  /\ task = [c \in Callers |-> NoTask]
  /\ last = NoOp
  /\ overlapped = FALSE

NextLayout ==
  \/ \E s \in RouteSessionIds : \E d \in LayoutDocs(s) : WriteSession(s, d)
  \/ \E s \in RouteSessionIds : ReadSession(s)
  \/ \E s \in RouteSessionIds : MigrateSessionToFolder(s)

SpecLayout == InitLayout /\ [][NextLayout]_vars

----------------------------------------------------------------------------
(* Prompt templates (prompts.config); a string is the sequence of its
   characters *)

\* the text that the pattern \$\{key\} matches
Placeholder(key) == <<"$", "{">> \o key \o <<"}">>

\* the text String.prototype.replace inserts for one match of a pattern
\* that has no capture group: $$, $&, $` and $' are patterns of the
\* replacement string, any other $ stands for itself
RECURSIVE GetSubstitution(_, _, _, _)
GetSubstitution(matched, str, position, replacement) ==
  IF replacement = <<>> THEN <<>>
  ELSE IF Head(replacement) = "$" /\ Len(replacement) >= 2
    THEN LET c == replacement[2]
             rest == GetSubstitution(matched, str, position,
                                     SubSeq(replacement, 3, Len(replacement)))
         IN  CASE c = "$" -> <<"$">> \o rest
               [] c = "&" -> matched \o rest
               [] c = "`" -> SubSeq(str, 1, position - 1) \o rest
               [] c = "'" -> SubSeq(str, position + Len(matched), Len(str)) \o rest
               [] OTHER -> <<"$">> \o GetSubstitution(matched, str, position,
                                                      Tail(replacement))
  ELSE <<Head(replacement)>> \o
       GetSubstitution(matched, str, position, Tail(replacement))

\* str.replace(new RegExp(placeholder, "g"), replacement), from position i on
RECURSIVE ReplaceFrom(_, _, _, _)
ReplaceFrom(str, pattern, replacement, i) ==
  IF i > Len(str) THEN <<>>
  ELSE IF /\ i + Len(pattern) - 1 <= Len(str)
          /\ SubSeq(str, i, i + Len(pattern) - 1) = pattern
    THEN GetSubstitution(pattern, str, i, replacement) \o
         ReplaceFrom(str, pattern, replacement, i + Len(pattern))
  ELSE <<str[i]>> \o ReplaceFrom(str, pattern, replacement, i + 1)

\* fillPromptTemplate(template, variables): variables is the list
\* Object.entries yields, one replacement of the whole text per entry
RECURSIVE fillPromptTemplate(_, _)
fillPromptTemplate(template, variables) ==
  IF variables = <<>> THEN template
  ELSE fillPromptTemplate(
         ReplaceFrom(template, Placeholder(Head(variables).key),
                     Head(variables).value, 1),
         Tail(variables))

\* variable names: two that are supplied and one that never is
SuppliedKeys == {<<"a">>, <<"b">>}
UnsuppliedKey == <<"c">>

\* pieces of template text, and the templates made of at most three
TemplatePieces ==
  {Placeholder(k) : k \in SuppliedKeys \cup {UnsuppliedKey}} \cup {<<"x">>, <<"$">>}
Templates ==
  {<<>>} \cup TemplatePieces
    \cup {p \o q : p \in TemplatePieces, q \in TemplatePieces}
    \cup {p \o q \o r : p \in TemplatePieces, q \in TemplatePieces,
                        r \in TemplatePieces}

\* variable values: plain text, text holding a dollar sign, text holding
\* the placeholder of another variable
TemplateValues ==
  {<<>>, <<"v">>, <<"$", "5">>, <<"$", "$">>, <<"$", "&">>, <<"$", "'">>,
   Placeholder(<<"b">>)}

\* the entries of a variables object, in insertion order
VariableLists ==
  {<<>>}
    \cup {<<[key |-> k, value |-> v]>> : k \in SuppliedKeys, v \in TemplateValues}
    \cup {<<[key |-> k, value |-> v], [key |-> l, value |-> w]>> :
            k \in SuppliedKeys, l \in SuppliedKeys, v \in TemplateValues,
            w \in TemplateValues}

\* the prompt variables of one call: at most one entry per key
PromptVariables ==
  {v \in VariableLists : v # <<>> /\ (Len(v) = 2 => v[1].key # v[2].key)}

\* one call of fillPromptTemplate with the template and variables at hand
FillPromptTemplate ==
  /\ last.op = "prompt"
  /\ last' = [op |-> "fillPromptTemplate", sid |-> "none",
              template |-> last.template, variables |-> last.variables,
              threw |-> FALSE,
              result |-> fillPromptTemplate(last.template, last.variables)]
  /\ UNCHANGED <<store, exec, nsucc, ctl, wr, task, overlapped>>

InitTemplate ==
  /\ store = <<>>
  /\ exec = [c \in Callers |-> NoCall]
  /\ nsucc = [s \in SessionIds |-> NoAppends]
  /\ ctl = NoEval
  /\ wr = NoWrite
  /\ task = [c \in Callers |-> NoTask]
  /\ \E t \in Templates, v \in PromptVariables :
       last = [op |-> "prompt", sid |-> "none", template |-> t, variables |-> v]
  /\ overlapped = FALSE

NextTemplate == FillPromptTemplate

SpecTemplate == InitTemplate /\ [][NextTemplate]_vars

----------------------------------------------------------------------------
(* Lifeline service (lifelineService.generateLifeline) with the scene image *)
(* of the new lifeline (imageWorkflowService, imagePromptService)           *)

\* GAME_CONFIG.generateImageForEachLifeline
generateImageForEachLifeline == JBool(TRUE)

\* session.config.generateImages ?? GAME_CONFIG.generateImageForEachLifeline
shouldGenerateImage(session) ==
  Truthy(Coalesce(Prop(Prop(session, "config"), "generateImages"),
                  generateImageForEachLifeline))

\* session.images?.some(image => image.sourceType === 'lifeline' &&
\*                               image.sourceId === lifeline.id) ?? false
alreadyHasImage(session, lifeline) ==
  LET images == Prop(session, "images")
  IN  /\ images.t = "array"
      /\ \E i \in DOMAIN images.a :
           /\ Prop(images.a[i], "sourceType") = JStr("lifeline")
           /\ Prop(images.a[i], "sourceId") = Prop(lifeline, "id")

\* generateLifeline awaits generateSceneImage for the lifeline it has read
WantsSceneImage(session, lifeline) ==
  Truthy(lifeline) /\ shouldGenerateImage(session) /\ ~alreadyHasImage(session, lifeline)

\* the lifeline generateLifeline returns when executeAgent returned no data
MockLifeline == JObj([id |-> JStr("lifeline-mock"), endAge |-> JNum(5)])

\* generateImagePrompt once executeAgent has returned data: the session with
\* sourceType and sourceId set on its last image prompt, or the error thrown
\* (no prompt in the session; assignment to a property of a primitive)
patchLatestPrompt(session, sourceType, sourceId) ==
  LET imagePrompts == Prop(session, "imagePrompts")
      latestPrompt == LastOf(imagePrompts)
  IN  IF imagePrompts.t # "array" THEN [ok |-> FALSE, error |-> TypeErrorMsg, session |-> session]
      ELSE IF ~Truthy(latestPrompt)
        THEN [ok |-> FALSE, session |-> session,
              error |-> "Image prompt generation succeeded but no prompt found in session"]
      ELSE IF latestPrompt.t \notin {"object", "array"}
        THEN [ok |-> FALSE, error |-> TypeErrorMsg, session |-> session]
      ELSE [ok |-> TRUE, error |-> "",
            session |->
              WithProp(session, "imagePrompts",
                [imagePrompts EXCEPT !.a[Len(imagePrompts.a)] =
                   WithProp(WithProp(latestPrompt, "sourceType", JStr(sourceType)),
                            "sourceId", JStr(sourceId))])]

\* a catch block that logs the failure of generateSceneImage and rethrows it
sceneCaught_rethrows(lifeline, error) == [value |-> Undefined, error |-> error]

\* the catch block around generateSceneImage and the return after it: what
\* generateLifeline resolves to (value) or rejects with (error)
sceneCaught(lifeline, error) == [value |-> lifeline, error |-> ""]

\* generateLifeline(sessionId) up to its first await
GenerateLifeline(c, sessionId) ==
  /\ ~Busy(c)
  /\ ExecBegin(c, getAgentConfig("lifelineGeneration"), sessionId)
  /\ task' = Begin(c, [op |-> "generateLifeline", pc |-> "agent", sid |-> sessionId,
                        arg |-> "none", status |-> 0, error |-> "",
                        held |-> Undefined, value |-> Undefined,
                        output |-> Undefined, sceneFailed |-> FALSE])

\* executeAgent has settled and no scene image is asked for: generateLifeline
\* rejects with the agent's error, or returns the mock lifeline, or returns
\* the last lifeline of the session
LifelineSettled(c) ==
  /\ task[c].op = "generateLifeline"
  /\ task[c].pc = "agent"
  /\ exec[c].pc = "done"
  /\ LET session == readSession(store, task[c].sid)
         lifeline == LastOf(Prop(session, "lifelines"))
     IN  IF exec[c].outcome = "threw"
           THEN task' = [task EXCEPT ![c] = [@ EXCEPT !.pc = "done", !.error = exec[c].error]]
         ELSE IF ~Truthy(exec[c].value)
           THEN task' = [task EXCEPT ![c] = [@ EXCEPT !.pc = "done", !.value = MockLifeline]]
         ELSE /\ ~WantsSceneImage(session, lifeline)
              /\ task' = [task EXCEPT ![c] = [@ EXCEPT !.pc = "done", !.value = lifeline,
                                                       !.output = exec[c].value]]
  /\ exec' = [exec EXCEPT ![c] = NoCall]
  /\ last' = Did("generateLifeline", task[c].sid)
  /\ UNCHANGED <<store, nsucc, ctl, wr, overlapped>>

\* executeAgent has returned the lifeline and a scene image is asked for:
\* generateSceneImage, generateImagePrompt, executeAgent up to its await
SceneStart(c) ==
  /\ task[c].op = "generateLifeline"
  /\ task[c].pc = "agent"
  /\ exec[c].pc = "done"
  /\ exec[c].outcome = "returned"
  /\ Truthy(exec[c].value)
  /\ LET session == readSession(store, task[c].sid)
         lifeline == LastOf(Prop(session, "lifelines"))
     IN  /\ WantsSceneImage(session, lifeline)
         /\ task' = [task EXCEPT ![c] = [@ EXCEPT !.pc = "prompt", !.value = lifeline,
                                                  !.output = exec[c].value]]
  /\ ExecCall(c, getAgentConfig("imagePromptGeneration"), task[c].sid)

\* generateSceneImage has rejected with the given error: the catch block of
\* generateLifeline, and its return
SceneRejected(c, error) ==
  /\ LET r == sceneCaught(task[c].value, error)
     IN  task' = [task EXCEPT ![c] = [@ EXCEPT !.pc = "done", !.sceneFailed = TRUE,
                                              !.value = r.value, !.error = r.error]]
  /\ exec' = [exec EXCEPT ![c] = NoCall]
  /\ last' = Did("generateLifeline", task[c].sid)
  /\ UNCHANGED <<store, nsucc, ctl, wr, overlapped>>

\* what generateImagePrompt does once executeAgent has returned: nothing to
\* the session when it returned no data, else the patch of the last prompt
PromptPatch(c) ==
  IF ~Truthy(exec[c].value)
    THEN [ok |-> TRUE, error |-> "", session |-> readSession(store, task[c].sid)]
  ELSE patchLatestPrompt(readSession(store, task[c].sid), "lifeline",
                         Prop(task[c].value, "id").s)

\* generateImagePrompt rejects: its executeAgent call threw, or the patch did
ScenePromptFailed(c) ==
  /\ task[c].op = "generateLifeline"
  /\ task[c].pc = "prompt"
  /\ exec[c].pc = "done"
  /\ \/ exec[c].outcome = "threw" /\ SceneRejected(c, exec[c].error)
     \/ /\ exec[c].outcome = "returned"
        /\ ~PromptPatch(c).ok
        /\ SceneRejected(c, PromptPatch(c).error)

\* generateImagePrompt returns: the patched session is written, and
\* generateHistoricalImage runs executeAgent up to its await
ScenePromptDone(c) ==
  /\ task[c].op = "generateLifeline"
  /\ task[c].pc = "prompt"
  /\ exec[c].pc = "done"
  /\ exec[c].outcome = "returned"
  /\ PromptPatch(c).ok
  /\ task' = [task EXCEPT ![c] = [@ EXCEPT !.pc = "image"]]
  /\ ExecCallOn(IF Truthy(exec[c].value)
                  THEN writeSession(store, task[c].sid, PromptPatch(c).session)
                  ELSE store,
                c, getAgentConfig("imageGeneration"), task[c].sid)

\* what generateHistoricalImage does once executeAgent has returned data
ImagePatch(c) ==
  patchLatestImage(readSession(store, task[c].sid), "lifeline",
                   Prop(task[c].value, "id").s)

\* generateHistoricalImage rejects: its executeAgent call threw, or the patch
\* of the last image did
SceneImageFailed(c) ==
  /\ task[c].op = "generateLifeline"
  /\ task[c].pc = "image"
  /\ exec[c].pc = "done"
  /\ \/ exec[c].outcome = "threw" /\ SceneRejected(c, exec[c].error)
     \/ /\ exec[c].outcome = "returned"
        /\ Truthy(exec[c].value)
        /\ ~ImagePatch(c).ok
        /\ SceneRejected(c, TypeErrorMsg)

\* generateHistoricalImage has patched the last image and awaits
\* downloadImage (or returns its mock image, and generateLifeline returns)
SceneImageRead(c) ==
  /\ task[c].op = "generateLifeline"
  /\ task[c].pc = "image"
  /\ exec[c].pc = "done"
  /\ exec[c].outcome = "returned"
  /\ Truthy(exec[c].value) => ImagePatch(c).ok
  /\ task' = [task EXCEPT ![c] =
                IF Truthy(exec[c].value)
                  THEN [@ EXCEPT !.pc = "download", !.held = ImagePatch(c).session]
                  ELSE [@ EXCEPT !.pc = "done"]]
  /\ exec' = [exec EXCEPT ![c] = NoCall]
  /\ last' = Did("generateLifeline", task[c].sid)
  /\ UNCHANGED <<store, nsucc, ctl, wr, overlapped>>

\* downloadImage resolved: the held session object is written, and
\* generateSceneImage and generateLifeline return
SceneImageSaved(c) ==
  /\ task[c].op = "generateLifeline"
  /\ task[c].pc = "download"
  /\ LET saved == savedSession(task[c].held, task[c].sid)
     IN  store' = IF saved.ok THEN writeSession(store, task[c].sid, saved.session)
                  ELSE store
  /\ task' = [task EXCEPT ![c] = [@ EXCEPT !.pc = "done", !.held = Undefined]]
  /\ last' = Did("generateLifeline", task[c].sid)
  /\ UNCHANGED <<exec, nsucc, ctl, wr, overlapped>>

\* downloadImage rejected: the catch block of generateHistoricalImage, which
\* returns the image, and generateSceneImage and generateLifeline return
SceneDownloadFailed(c) ==
  /\ task[c].op = "generateLifeline"
  /\ task[c].pc = "download"
  /\ task' = [task EXCEPT ![c] = [@ EXCEPT !.pc = "done", !.held = Undefined]]
  /\ last' = Did("generateLifeline", task[c].sid)
  /\ UNCHANGED <<store, exec, nsucc, ctl, wr, overlapped>>

\* configs of sessions: scene images asked for, and the default
SceneConfigs == {JObj([generateImages |-> JBool(TRUE)]), DefaultConfig}

\* what the backend returns to the agents generateLifeline runs
SceneBackendValues ==
  BackendValues(AGENTS.lifelineGeneration)
    \cup BackendValues(AGENTS.imagePromptGeneration)
    \cup BackendValues(AGENTS.imageGeneration)

\* generateLifeline called, one call at a time, on a session whose persona
\* is selected.
InitScene ==
  /\ \E s \in SessionIds, g \in SceneConfigs :
       store = setSelectedPersona(OfferedWith(s, g), s,
                                  JObj([id |-> JStr("persona-1")])).store
  /\ exec = [c \in Callers |-> NoCall]
  /\ nsucc = [s \in SessionIds |-> NoAppends]
  /\ ctl = NoEval
  /\ wr = NoWrite
  /\ task = [c \in Callers |-> NoTask]
  /\ last = NoOp
  /\ overlapped = FALSE

NextScene ==
  \/ \E c \in SeqCallers, s \in SessionIds : GenerateLifeline(c, s)
  \/ \E c \in SeqCallers, raw \in SceneBackendValues, now \in DateNow :
       ExecReturn(c, raw, now)
  \/ \E c \in SeqCallers : ExecThrow(c, TimeoutMsg)
  \/ \E c \in SeqCallers : LifelineSettled(c)
  \/ \E c \in SeqCallers : SceneStart(c)
  \/ \E c \in SeqCallers : ScenePromptFailed(c)
  \/ \E c \in SeqCallers : ScenePromptDone(c)
  \/ \E c \in SeqCallers : SceneImageFailed(c)
  \/ \E c \in SeqCallers : SceneImageRead(c)
  \/ \E c \in SeqCallers : SceneImageSaved(c)
  \/ \E c \in SeqCallers : SceneDownloadFailed(c)

SpecScene == InitScene /\ [][NextScene]_vars

----------------------------------------------------------------------------
(* Session history store (lib/sessionStore): the file data/sessions.json,   *)
(* kept in the store under its path.  The subtitle of an entry, which the   *)
(* store only carries, is left out.                                         *)

STORAGE_FILE == "data/sessions.json"

DEFAULT_SESSIONS == JObj([sessions |-> JArr(<<>>), selectedId |-> JNull])

\* the sessions list of a state, and the ids in it
SessionsOf(state) == Prop(state, "sessions").a
IdsOf(state) == {Prop(SessionsOf(state)[i], "id") : i \in DOMAIN SessionsOf(state)}

\* readStorage() once ensureStorageFile has resolved: the file parsed, every
\* entry given a sessionDataId property, or the default state when reading
\* or parsing or mapping throws
readStorage(st) ==
  IF STORAGE_FILE \notin DOMAIN st THEN DEFAULT_SESSIONS
  ELSE LET parsed == st[STORAGE_FILE]
           sessions == Coalesce(Prop(parsed, "sessions"), JArr(<<>>))
       IN  IF parsed.t \in {"undefined", "null"} \/ sessions.t # "array"
             THEN DEFAULT_SESSIONS
           ELSE JObj([sessions |->
                        JArr([i \in DOMAIN sessions.a |->
                                WithProp(sessions.a[i], "sessionDataId",
                                         Coalesce(Prop(sessions.a[i], "sessionDataId"),
                                                  Undefined))]),
                      selectedId |-> Coalesce(Prop(parsed, "selectedId"), JNull)])

\* the write of writeStorage(payload): JSON.stringify(payload) in the file
writeStorage(st, payload) == (STORAGE_FILE :> JSONRoundTrip(payload)) @@ st

\* the write of ensureStorageFile when the file was found missing
writeDefault(st) == writeStorage(st, DEFAULT_SESSIONS)

\* what a call does between readStorage and writeStorage: the state it
\* returns (value, null for none) and whether it writes that state
Writes(state) == [value |-> state, write |-> TRUE]
Returns(value) == [value |-> value, write |-> FALSE]

\* createSession(): current is what readStorage returned, timestamp is Date.now()
createSession(current, timestamp) ==
  LET newSession ==
        JObj([id |-> JStr("session-" \o ToString(timestamp)),
              label |-> JStr("New life " \o ToString(Len(SessionsOf(current)) + 1)),
              createdAt |-> JNum(timestamp),
              sessionDataId |-> Undefined])
  IN  Writes(JObj([sessions |-> JArr(<<newSession>> \o SessionsOf(current)),
                   selectedId |-> Prop(newSession, "id")]))

\* registerSession(sessionId, options)
registerSession(current, sessionId, options, now) ==
  LET timestamp == Coalesce(OptProp(options, "createdAt"), JNum(now))
      label == Coalesce(OptProp(options, "label"), JStr("Life in " \o sessionId))
      newSession == JObj([id |-> JStr(sessionId), label |-> label,
                          createdAt |-> timestamp, sessionDataId |-> JStr(sessionId)])
      dedupedSessions ==
        SelectSeq(SessionsOf(current), LAMBDA s : Prop(s, "id") # JStr(sessionId))
  IN  Writes(JObj([sessions |-> JArr(<<newSession>> \o dedupedSessions),
                   selectedId |-> JStr(sessionId)]))

\* sessions.findIndex(session => session.id === id), 0 for -1
FindIndex(sessions, id) ==
  IF \E i \in DOMAIN sessions : Prop(sessions[i], "id") = JStr(id)
    THEN CHOOSE i \in DOMAIN sessions :
           /\ Prop(sessions[i], "id") = JStr(id)
           /\ \A j \in 1..(i - 1) : Prop(sessions[j], "id") # JStr(id)
    ELSE 0

\* renameSession adding an entry for an id the list does not hold
renameSession_upserts(current, id, label) ==
  LET index == FindIndex(SessionsOf(current), id)
  IN  IF index = 0
        THEN Writes(JObj([sessions |->
                            JArr(<<JObj([id |-> JStr(id), label |-> JStr(label)])>>
                                 \o SessionsOf(current)),
                          selectedId |-> Prop(current, "selectedId")]))
      ELSE Writes(JObj([sessions |->
                          JArr([SessionsOf(current) EXCEPT
                                  ![index] = WithProp(@, "label", JStr(label))]),
                        selectedId |-> Prop(current, "selectedId")]))

\* renameSession(id, label)
renameSession(current, id, label) ==
  LET index == FindIndex(SessionsOf(current), id)
  IN  IF index = 0 THEN Returns(JNull)
      ELSE IF Prop(SessionsOf(current)[index], "label") = JStr(label)
        THEN Returns(JObj([sessions |-> Prop(current, "sessions"),
                           selectedId |-> Prop(current, "selectedId")]))
      ELSE Writes(JObj([sessions |->
                          JArr([SessionsOf(current) EXCEPT
                                  ![index] = WithProp(@, "label", JStr(label))]),
                        selectedId |-> Prop(current, "selectedId")]))

\* selectSession selecting whatever id it is given
selectSession_unchecked(current, id) ==
  Writes(JObj([sessions |-> Prop(current, "sessions"), selectedId |-> JStr(id)]))

\* selectSession(id)
selectSession(current, id) ==
  IF JStr(id) \notin IdsOf(current) THEN Returns(JNull)
  ELSE Writes(JObj([sessions |-> Prop(current, "sessions"), selectedId |-> JStr(id)]))

\* body.label?.trim() of the PATCH handler
Trim(label) ==
  CASE label.t \in {"undefined", "null"} -> Undefined
    [] label = JStr(" Anna ") -> JStr("Anna")
    [] label = JStr("  ") -> JStr("")
    [] OTHER -> label

\* the status of the PATCH response for what renameSession returned
PatchStatus(sessions) == IF ~Truthy(sessions) THEN 404 ELSE 200

\* the clock (Date.now()), ids and labels of the calls
HistoryClock == {1000, 1001}
HistoryIds == SessionIds \cup {"session-1000", UnknownSessionId}
HistoryLabels == {"Anna", "New life 1"}
RegisterOptions ==
  {Undefined, JObj([label |-> JStr("Anna")]), JObj([createdAt |-> JNum(1000)])}
PatchBodies ==
  {JObj(<<>>), JObj([label |-> JStr("  ")]), JObj([label |-> JStr(" Anna ")]),
   JObj([label |-> JStr("New life 1")])}

\* createSession and registerSession are not called on a list this long
MaxHistory == 2

\* a call of the store up to the first await of readStorage
HistoryCall(c, op, id, label, options, route) ==
  /\ ~Busy(c)
  /\ task' = Begin(c, [op |-> op, pc |-> "access", sid |-> id, arg |-> label,
                        status |-> 0, error |-> "", held |-> Undefined,
                        options |-> options, route |-> route,
                        before |-> readStorage(store), value |-> Undefined])
  /\ exec' = [exec EXCEPT ![c] = NoCall]
  /\ last' = Did(op, id)
  /\ overlapped' = (overlapped \/ OthersBusy(c))
  /\ UNCHANGED <<store, nsucc, ctl, wr>>

HistoryOps == {"getSessions", "createSession", "registerSession", "renameSession",
               "selectSession"}

GetSessions(c) == HistoryCall(c, "getSessions", "none", "none", Undefined, FALSE)

HistoryCreate(c) ==
  /\ Len(SessionsOf(readStorage(store))) < MaxHistory
  /\ HistoryCall(c, "createSession", "none", "none", Undefined, FALSE)

HistoryRegister(c, sessionId, options) ==
  /\ Len(SessionsOf(readStorage(store))) < MaxHistory
  /\ HistoryCall(c, "registerSession", sessionId, "none", options, FALSE)

HistoryRename(c, id, label) ==
  HistoryCall(c, "renameSession", id, label, Undefined, FALSE)

HistorySelect(c, id) == HistoryCall(c, "selectSession", id, "none", Undefined, FALSE)

\* PATCH /api/sessions/[id]: 400 for an empty label, else renameSession
Patch(c, id, body) ==
  LET label == Trim(Prop(body, "label"))
  IN  IF ~Truthy(label)
        THEN /\ ~Busy(c)
             /\ task' = Begin(c, [op |-> "PATCH", pc |-> "done", sid |-> id,
                                   arg |-> "none", status |-> 400,
                                   error |-> "Label is required", held |-> Undefined,
                                   options |-> Undefined, route |-> TRUE,
                                   before |-> readStorage(store), value |-> Undefined])
             /\ exec' = [exec EXCEPT ![c] = NoCall]
             /\ last' = Did("PATCH", id)
             /\ overlapped' = (overlapped \/ OthersBusy(c))
             /\ UNCHANGED <<store, nsucc, ctl, wr>>
      ELSE HistoryCall(c, "renameSession", id, label.s, Undefined, TRUE)

\* ensureStorageFile: fs.access has settled, the file is there or not
StorageAccess(c) ==
  /\ task[c].op \in HistoryOps
  /\ task[c].pc \in {"access", "access2"}
  /\ task' = [task EXCEPT ![c] =
                [@ EXCEPT !.pc =
                   IF STORAGE_FILE \in DOMAIN store
                     THEN (IF task[c].pc = "access" THEN "read" ELSE "write")
                     ELSE (IF task[c].pc = "access" THEN "init" ELSE "init2")]]
  /\ last' = Did(task[c].op, task[c].sid)
  /\ UNCHANGED <<store, exec, nsucc, ctl, wr, overlapped>>

\* ensureStorageFile: the file was found missing, the default state is written
StorageInit(c) ==
  /\ task[c].op \in HistoryOps
  /\ task[c].pc \in {"init", "init2"}
  /\ store' = writeDefault(store)
  /\ task' = [task EXCEPT ![c] =
                [@ EXCEPT !.pc = IF task[c].pc = "init" THEN "read" ELSE "write"]]
  /\ last' = Did(task[c].op, task[c].sid)
  /\ UNCHANGED <<exec, nsucc, ctl, wr, overlapped>>

\* what the call of caller c does with the state readStorage returned
HistoryStep(c, current, now) ==
  CASE task[c].op = "createSession" -> createSession(current, now)
    [] task[c].op = "registerSession" ->
         registerSession(current, task[c].sid, task[c].options, now)
    [] task[c].op = "renameSession" -> renameSession(current, task[c].sid, task[c].arg)
    [] task[c].op = "selectSession" -> selectSession(current, task[c].sid)
    [] OTHER -> Returns(current)

\* readStorage resolves: the call returns, or builds its next state and
\* calls writeStorage
StorageRead(c, now) ==
  /\ task[c].op \in HistoryOps
  /\ task[c].pc = "read"
  /\ LET r == HistoryStep(c, readStorage(store), now)
     IN  task' = [task EXCEPT ![c] =
                    IF r.write THEN [@ EXCEPT !.pc = "access2", !.held = r.value]
                    ELSE [@ EXCEPT !.pc = "done", !.value = r.value,
                                   !.status = IF task[c].route THEN PatchStatus(r.value)
                                              ELSE 0]]
  /\ last' = Did(task[c].op, task[c].sid)
  /\ UNCHANGED <<store, exec, nsucc, ctl, wr, overlapped>>

\* writeStorage: the next state is written, and the call returns it
StorageWrite(c) ==
  /\ task[c].op \in HistoryOps
  /\ task[c].pc = "write"
  /\ store' = writeStorage(store, task[c].held)
  /\ task' = [task EXCEPT ![c] =
                [@ EXCEPT !.pc = "done", !.value = task[c].held, !.held = Undefined,
                          !.status = IF task[c].route THEN PatchStatus(task[c].held)
                                     ELSE 0]]
  /\ last' = Did(task[c].op, task[c].sid)
  /\ UNCHANGED <<exec, nsucc, ctl, wr, overlapped>>

\* The history store, one call at a time: no file yet.
InitHistory ==
  /\ store = <<>>
  /\ exec = [c \in Callers |-> NoCall]
  /\ nsucc = [s \in SessionIds |-> NoAppends]
  /\ ctl = NoEval
  /\ wr = NoWrite
  /\ task = [c \in Callers |-> NoTask]
  /\ last = NoOp
  /\ overlapped = FALSE

NextHistory ==
  \/ \E c \in SeqCallers : GetSessions(c)
  \/ \E c \in SeqCallers : HistoryCreate(c)
  \/ \E c \in SeqCallers, s \in SessionIds, o \in RegisterOptions : HistoryRegister(c, s, o)
  \/ \E c \in SeqCallers, s \in HistoryIds, l \in HistoryLabels : HistoryRename(c, s, l)
  \/ \E c \in SeqCallers, s \in HistoryIds : HistorySelect(c, s)
  \/ \E c \in SeqCallers, s \in HistoryIds, b \in PatchBodies : Patch(c, s, b)
  \/ \E c \in SeqCallers : StorageAccess(c)
  \/ \E c \in SeqCallers : StorageInit(c)
  \/ \E c \in SeqCallers, now \in HistoryClock : StorageRead(c, now)
  \/ \E c \in SeqCallers : StorageWrite(c)

SpecHistory == InitHistory /\ [][NextHistory]_vars

\* createSession and registerSession called by two callers whose steps
\* interleave at every await.
NextHistoryRace ==
  \/ \E c \in Callers : HistoryCreate(c)
  \/ \E c \in Callers, s \in SessionIds, o \in RegisterOptions : HistoryRegister(c, s, o)
  \/ \E c \in Callers : StorageAccess(c)
  \/ \E c \in Callers : StorageInit(c)
  \/ \E c \in Callers, now \in HistoryClock : StorageRead(c, now)
  \/ \E c \in Callers : StorageWrite(c)

SpecHistoryRace == InitHistory /\ [][NextHistoryRace]_vars

----------------------------------------------------------------------------
(* Properties *)

\* the calls that have ended on a session that existed when they started
EndedCalls == {c \in Callers : exec[c].pc = "done" /\ exec[c].doc0 # Undefined}

LogsOf(session) == Prop(session, "executionLogs").a

\* the required input fields of a configuration that a session lacks, by position
MissingRequired(cfg, session) ==
  {i \in DOMAIN cfg.inputFields :
     /\ cfg.inputFields[i].required
     /\ getNestedValue(session, cfg.inputFields[i].field) = Undefined}

Least(S) == CHOOSE i \in S : \A j \in S : i <= j

\* the session the controller was last asked about
Moments(sessionId) == Prop(store[sessionId], "pivotalMoments").a
Ceiling(sessionId) == Prop(Prop(store[sessionId], "config"), "maxPivotalMoments").n
Died(moment) == Prop(moment, "characterDied") = JBool(TRUE)
LatestDied(sessionId) ==
  Moments(sessionId) # <<>> /\ Died(Moments(sessionId)[Len(Moments(sessionId))])
NoEndCondition ==
  \/ ctl.agentId # "pivotalMomentGeneration"
  \/ Len(Moments(ctl.sid)) < Ceiling(ctl.sid) /\ ~LatestDied(ctl.sid)

\* the evaluation was made with the registered configuration of its agent
Registered ==
  /\ ctl.agentId \in AgentIds
  /\ ctl.rules = AGENTS[ctl.agentId].nextAgentRules
  /\ ctl.requiresUserInput = AGENTS[ctl.agentId].requiresUserInput

\* the positions of the rules that match under the flag of the evaluation
Matching ==
  {i \in DOMAIN ctl.rules :
     \/ ctl.rules[i].condition = "always"
     \/ ctl.rules[i].condition = "userSelection" /\ ctl.flag}

SelectionRules == {i \in DOMAIN ctl.rules : ctl.rules[i].condition = "userSelection"}

\* C1: every append collection of a session holds exactly as many entries as
\* executeAgent calls have succeeded for its field, and a successful call of an
\* append-target agent leaves the collection one entry longer with every
\* earlier entry unchanged at its index.
C1_AppendGrowsByOne ==
  /\ \A s \in DOMAIN store : \A f \in AppendFields :
       /\ Prop(store[s], f).t = "array"
       /\ Len(Prop(store[s], f).a) = nsucc[s][f]
  /\ \A c \in EndedCalls :
       LET f == ConfigOf(exec[c].agent).outputField
           was == Prop(exec[c].doc0, f).a
           now == Prop(store[exec[c].sid], f).a
       IN  exec[c].outcome = "returned" /\ f \in AppendFields =>
             /\ Len(now) = Len(was) + 1
             /\ SubSeq(now, 1, Len(was)) = was

\* a second successful call has appended to a collection that held an entry
C1_Witness ==
  \E c \in EndedCalls :
    /\ exec[c].outcome = "returned"
    /\ ConfigOf(exec[c].agent).outputField \in AppendFields
    /\ nsucc[exec[c].sid][ConfigOf(exec[c].agent).outputField] = 2

C3_PauseWithoutSelection ==
  ctl.called /\ ctl.requiresUserInput /\ ~ctl.flag => ctl.result = Terminal

\* asked without a selection about a user-input agent whose first rule is 'always'
C3_Witness ==
  /\ ctl.called /\ ctl.requiresUserInput /\ ~ctl.flag
  /\ ctl.agentId = "personaGeneration"
  /\ ctl.rules # <<>>
  /\ ctl.rules[1].condition = "always"

\* C4: for pivotalMomentGeneration, once the session holds as many pivotal
\* moments as config.maxPivotalMoments, getNextAgent returns null.
C4_CeilingEndsWorkflow ==
  /\ ctl.called
  /\ ctl.agentId = "pivotalMomentGeneration"
  /\ Len(Moments(ctl.sid)) >= Ceiling(ctl.sid)
  => ctl.result = Terminal

\* ceiling 2, the 2nd moment just appended, a selection made, a userSelection rule
C4_Witness ==
  /\ ctl.called /\ Registered /\ ctl.flag
  /\ ctl.agentId = "pivotalMomentGeneration"
  /\ Ceiling(ctl.sid) = 2
  /\ Len(Moments(ctl.sid)) = 2
  /\ ~LatestDied(ctl.sid)

\* C5: for pivotalMomentGeneration, a latest pivotal moment flagged
\* characterDied makes getNextAgent return null under both flags, and with the
\* registered rules, a selection made, the latest moment unflagged and the
\* ceiling not reached it returns lifelineGeneration, whatever earlier moments hold.
C5_LatestDeathEndsWorkflow ==
  ctl.called /\ ctl.agentId = "pivotalMomentGeneration" =>
    /\ LatestDied(ctl.sid) => ctl.result = Terminal
    /\ (/\ Registered /\ ctl.flag
        /\ ~LatestDied(ctl.sid)
        /\ Len(Moments(ctl.sid)) < Ceiling(ctl.sid))
       => ctl.result = "lifelineGeneration"

\* the latest of two moments is flagged, the first is not, the ceiling is not reached
C5_Witness ==
  /\ ctl.called /\ Registered /\ ctl.flag
  /\ ctl.agentId = "pivotalMomentGeneration"
  /\ Len(Moments(ctl.sid)) = 2
  /\ LatestDied(ctl.sid)
  /\ ~Died(Moments(ctl.sid)[1])
  /\ Len(Moments(ctl.sid)) < Ceiling(ctl.sid)

\* C6: for a registered agent with a userSelection rule, a selection made and
\* no end condition met, getNextAgent returns that rule's nextAgentId.
C6_SelectionRuleTaken ==
  /\ ctl.called /\ Registered /\ ctl.flag
  /\ SelectionRules # {}
  /\ NoEndCondition
  => ctl.result = ctl.rules[Least(SelectionRules)].nextAgentId

\* pivotalMomentGeneration after a selection, one moment held, no end condition
C6_Witness ==
  /\ ctl.called /\ Registered /\ ctl.flag
  /\ ctl.agentId = "pivotalMomentGeneration"
  /\ Len(Moments(ctl.sid)) = 1
  /\ NoEndCondition

\* C7: when neither the end-condition check nor the pause check fires, the
\* result is the nextAgentId of the first rule in configured order that is
\* 'always', or 'userSelection' with a selection made, and null when there is none.
C7_FirstMatchingRule ==
  /\ ctl.called
  /\ NoEndCondition
  /\ ~(ctl.requiresUserInput /\ ~ctl.flag)
  => ctl.result = IF Matching = {} THEN Terminal
                  ELSE ctl.rules[Least(Matching)].nextAgentId

\* an endCondition rule ahead of the userSelection rule that supplies the result
C7_Witness ==
  /\ ctl.called /\ ctl.flag /\ NoEndCondition
  /\ Len(ctl.rules) = 2
  /\ ctl.rules[1].condition = "endCondition"
  /\ ctl.rules[2].condition = "userSelection"

\* C8: a call that found a required input field absent throws the
\* missing-input error naming the first such field and made no backend call;
\* a call that found every required field throws no missing-input error.
C8_MissingInputBeforeBackend ==
  \A c \in EndedCalls :
    LET cfg == ConfigOf(exec[c].agent)
        missing == MissingRequired(cfg, exec[c].doc0)
    IN  IF missing # {}
          THEN /\ exec[c].outcome = "threw"
               /\ exec[c].error = MissingInputMsg(cfg.inputFields[Least(missing)].field)
               /\ exec[c].backendCalls = 0
          ELSE \A i \in DOMAIN cfg.inputFields :
                 exec[c].error # MissingInputMsg(cfg.inputFields[i].field)

\* lifelineGeneration on a session lacking both required fields and an optional one
C8_Witness ==
  \E c \in EndedCalls :
    /\ exec[c].agent = "lifelineGeneration"
    /\ Cardinality(MissingRequired(AGENTS.lifelineGeneration, exec[c].doc0)) = 2
    /\ getNestedValue(exec[c].doc0, "lastChoice") = Undefined

\* C9: a call that threw has appended a log entry with success false and the
\* message of the failure raised inside it, and the error it threw carries
\* that same message.
C9_FailureLoggedAndRethrown ==
  \A c \in EndedCalls :
    exec[c].outcome = "threw" =>
      LET logs == LogsOf(store[exec[c].sid])
      IN  /\ exec[c].error = exec[c].raised
          /\ logs # <<>>
          /\ Prop(logs[Len(logs)], "success") = JBool(FALSE)
          /\ Prop(logs[Len(logs)], "error") = JStr(exec[c].raised)
          /\ Prop(logs[Len(logs)], "agentId") = JStr(exec[c].agent)

\* the backend call was made and its response could not be parsed
C9_Witness ==
  \E c \in EndedCalls :
    /\ exec[c].outcome = "threw"
    /\ exec[c].backendCalls = 1
    /\ exec[c].raised = "Failed to parse JSON response: Unexpected end of JSON input"

\* C10: a call, returned or thrown, has left executionLogs as it found them
\* plus one entry, whose success flag tells whether the call returned.
C10_OneLogPerCall ==
  \A c \in EndedCalls :
    LET was == LogsOf(exec[c].doc0)
        now == LogsOf(store[exec[c].sid])
    IN  /\ Len(now) = Len(was) + 1
        /\ SubSeq(now, 1, Len(was)) = was
        /\ Prop(now[Len(now)], "success") = JBool(exec[c].outcome = "returned")

\* a call returned on a session whose log already held a failed and a successful entry
C10_Witness ==
  \E c \in EndedCalls :
    /\ exec[c].outcome = "returned"
    /\ Len(LogsOf(exec[c].doc0)) = 2
    /\ Prop(LogsOf(exec[c].doc0)[1], "success") # Prop(LogsOf(exec[c].doc0)[2], "success")

\* C14: a call whose backend request timed out leaves the session document
\* as it found it: no output written, no log entry appended.
C14_TimeoutLeavesSessionUnmodified ==
  \A c \in EndedCalls :
    exec[c].raised = BackendErrorMsg(ConfigOf(exec[c].agent), TimeoutMsg) =>
      store[exec[c].sid] = exec[c].doc0

\* C15: once two executeAgent calls have succeeded for an append collection
\* of a registered agent, the collection holds 2 entries with different ids,
\* and the log holds exactly 2 successful entries of agents writing to it.
C15_TwoCallsTwoDistinctIds ==
  \A s \in DOMAIN store : \A a \in AgentIds :
    LET f == AGENTS[a].outputField
        coll == Prop(store[s], f).a
        logs == LogsOf(store[s])
    IN  f \in AppendFields /\ nsucc[s][f] = 2 =>
          /\ Len(coll) = 2
          /\ Prop(coll[1], "id") # Prop(coll[2], "id")
          /\ Cardinality({i \in DOMAIN logs :
                            /\ Prop(logs[i], "agentId") = JStr(a)
                            /\ Prop(logs[i], "success") = JBool(TRUE)}) = 2

\* C17: a createSession step leaves every document already in the store as it was.
C17_CreateNeverOverwrites ==
  [][last'.op = "createSession" => \A s \in DOMAIN store : store'[s] = store[s]]_vars

\* C18: getAgentConfig returns the registered configuration for a registered
\* id and throws for an id that is not registered.
C18_UnregisteredIdFails ==
  last.op = "getAgentConfig" =>
    IF last.agentId \in AgentIds
      THEN ~last.threw /\ last.value = AGENTS[last.agentId]
      ELSE last.threw

\* every segment before the last is absent from its parent or holds an object
RECURSIVE ThroughObjects(_, _)
ThroughObjects(current, keys) ==
  /\ current.t = "object"
  /\ Len(keys) > 1 /\ Head(keys) \in DOMAIN current.f =>
       ThroughObjects(current.f[Head(keys)], Tail(keys))

\* some segment of the path is not set
RECURSIVE SegmentUnset(_, _)
SegmentUnset(current, keys) ==
  /\ keys # <<>>
  /\ \/ ~HasKey(current, Head(keys))
     \/ SegmentUnset(Prop(current, Head(keys)), Tail(keys))

\* getNestedValue on a path with an unset segment returns undefined and does not throw
UnsetPathReadsUndefined ==
  last.op = "getNestedValue" /\ SegmentUnset(store[last.sid], Split(last.path)) =>
    ~last.threw /\ last.value = Undefined

\* C16 as claimed: for every path and value, setNestedValue then
\* getNestedValue returns the value, and getNestedValue on an unset path
\* returns undefined without throwing.
C16_RoundTripEveryPath ==
  /\ last.op = "setNestedValue" => ~last.threw /\ last.got = last.value
  /\ UnsetPathReadsUndefined

\* C16 as amended: for every path whose segments before the last are each
\* absent or hold an object, setNestedValue then getNestedValue returns the
\* value; getNestedValue on an unset path returns undefined without throwing.
C16_RoundTripThroughObjects ==
  /\ last.op = "setNestedValue" /\ ThroughObjects(store[last.sid], Split(last.path)) =>
       ~last.threw /\ last.got = last.value
  /\ UnsetPathReadsUndefined

\* 5 set at x.y.z of a session that lacks x, and read back
C16_Witness ==
  /\ last.op = "setNestedValue"
  /\ last.path = "x.y.z"
  /\ last.value = JNum(5)
  /\ ~HasKey(store[last.sid], "x")
  /\ last.got = JNum(5)

\* the pivotal moments session's choices list decides, one entry per decision
Decided(session) ==
  LET choices == Prop(session, "choices").a
  IN  [i \in DOMAIN choices |-> Prop(choices[i], "pivotalMomentId")]

\* caller c sends a make-choice request in this step
MakeChoiceRequest(c) ==
  /\ ~Busy(c)
  /\ last'.op = "makeChoice"
  /\ task'[c].op = "makeChoice"

\* the request answered with an error status
Rejected(record) == record.pc = "done" /\ record.status >= 400

AtMostOneDecisionPerMoment ==
  \A s \in DOMAIN store :
    \A i, j \in DOMAIN Decided(store[s]) :
      Decided(store[s])[i] = Decided(store[s])[j] => i = j

DuplicateRejected ==
  \A c \in Callers :
    MakeChoiceRequest(c) /\ SessionExists(store, task'[c].sid) =>
      LET sid == task'[c].sid
          before == Decided(store[sid])
      IN  (\E i \in DOMAIN before : before[i] = JStr(task'[c].arg)) =>
            /\ Rejected(task'[c])
            /\ Prop(store'[sid], "choices") = Prop(store[sid], "choices")

\* C11: the choices of a session never hold two decisions for one pivotal
\* moment, and a make-choice request for a moment that already has a decision
\* is rejected and leaves choices as it was.
C11_OneDecisionPerMoment ==
  []AtMostOneDecisionPerMoment /\ [][DuplicateRejected]_vars

\* a session with a decision, and the answer to a second request for its moment
C11_Witness ==
  \E c \in Callers :
    /\ task[c].op = "makeChoice"
    /\ task[c].status = 400
    /\ task[c].error = DuplicateMsg
    /\ SessionExists(store, task[c].sid)
    /\ \E i \in DOMAIN Decided(store[task[c].sid]) :
         Decided(store[task[c].sid])[i] = JStr(task[c].arg)

\* caller c sends a make-choice or select-persona request in this step
RouteRequest(c) ==
  /\ ~Busy(c)
  /\ last'.op \in {"makeChoice", "selectPersona"}
  /\ task'[c].op = last'.op

\* the request caller c sends names a session the store does not hold, or is a
\* make-choice for a pivotal moment the session has a decision for
UnknownOrDuplicate(c) ==
  \/ ~SessionExists(store, task'[c].sid)
  \/ /\ task'[c].op = "makeChoice"
     /\ \E i \in DOMAIN Decided(store[task'[c].sid]) :
          Decided(store[task'[c].sid])[i] = JStr(task'[c].arg)

\* executeAgent is called in this step for a session the store does not hold
ExecuteOnUnknown == last'.op = "executeAgent" /\ ~SessionExists(store, last'.sid)

RejectedWithoutWrite ==
  /\ \A c \in Callers :
       RouteRequest(c) /\ UnknownOrDuplicate(c) =>
         Rejected(task'[c]) /\ store' = store
  /\ ExecuteOnUnknown =>
       /\ \E c \in Callers :
            /\ exec'[c].sid = last'.sid
            /\ exec'[c].pc = "done" /\ exec'[c].outcome = "threw"
       /\ store' = store

\* C12: a request that names an unknown session id, and a make-choice for a
\* moment already decided, end with an error and write nothing; no document
\* appears for the unknown id.
C12_RejectedWithoutWrite == [][RejectedWithoutWrite]_vars

\* make-choice was answered 500 for a session id the store does not hold
C12_Witness ==
  \E c \in Callers :
    /\ task[c].op = "makeChoice"
    /\ task[c].sid = UnknownSessionId
    /\ task[c].status = 500
    /\ task[c].error = NotFoundMsg(UnknownSessionId)
    /\ ~SessionExists(store, UnknownSessionId)

\* metadata.status of a stored session
StatusOf(session) == Prop(Prop(session, "metadata"), "status")

\* C13: the status of a session changes only from active to completed or from
\* active to failed.
C13_StatusOnlyLeavesActive ==
  [][\A s \in DOMAIN store :
       StatusOf(store'[s]) # StatusOf(store[s]) =>
         /\ StatusOf(store[s]) = JStr("active")
         /\ StatusOf(store'[s]) \in {JStr("completed"), JStr("failed")}]_vars

\* C20: a step of an operation on one session leaves the document of every
\* other session as it was, whatever the other session's requests are doing.
C20_OtherSessionsUnchanged ==
  [][/\ DOMAIN store' = DOMAIN store
     /\ \A s \in DOMAIN store : s # last'.sid => store'[s] = store[s]]_vars

\* make-choice has recorded a decision in one session while a request on the
\* other session, which has logged an agent call, is still running
C20_Witness ==
  /\ last = Did("makeChoice", SessionOf(1))
  /\ Len(Decided(store[SessionOf(1)])) > 0
  /\ Busy(2)
  /\ task[2].sid = SessionOf(2)
  /\ Len(Prop(store[SessionOf(2)], "executionLogs").a) > 0

\* every entry a successful executeAgent call appended is in its collection
NothingLost ==
  \A s \in DOMAIN store : \A f \in AppendFields :
    Len(Prop(store[s], f).a) = nsucc[s][f]

\* C19: as long as no invocation on a session began while another was
\* running, every appended entry is in the stored document; the witness is a
\* state, reached by overlapping invocations, in which one is missing after
\* both have finished.
C19_NoLossWhenSerialized == ~overlapped => NothingLost

\* two invocations overlapped, both have finished, and a collection is
\* shorter than the number of entries appended to it
C19_Witness ==
  /\ overlapped
  /\ \A c \in Callers : ~Busy(c)
  /\ \E s \in DOMAIN store : \E f \in AppendFields :
       Len(Prop(store[s], f).a) < nsucc[s][f]

\* the agent the workflow runs in its i-th iteration
InTurn(i) ==
  IF i = 1 THEN "historicalContext"
  ELSE IF i = 2 THEN "personaGeneration"
  ELSE IF i % 2 = 1 THEN "lifelineGeneration"
  ELSE "pivotalMomentGeneration"

\* the workflow scripts that are running or have run
Workflows == {c \in Callers : task[c].op = "workflow"}

\* C21: the workflow loop runs historicalContext, personaGeneration, then
\* lifelineGeneration and pivotalMomentGeneration in strict alternation (a
\* lifeline between every two pivotal moments), and it ends the session only
\* after a pivotalMomentGeneration step.
C21_AgentsInOrder ==
  \A c \in Workflows :
    /\ \A i \in DOMAIN task[c].ran : task[c].ran[i] = InTurn(i)
    /\ task[c].pc = "ended" =>
         task[c].ran[Len(task[c].ran)] = "pivotalMomentGeneration"

\* the loop is in its second pivotalMomentGeneration step
C21_Witness ==
  \E c \in Workflows :
    /\ Len(task[c].ran) = 6
    /\ task[c].arg = "pivotalMomentGeneration"
    /\ Len(Prop(store[task[c].sid], "lifelines").a) = 2

\* the script has left its loop: it ended the session, or it exited on an error
LoopOver == \A c \in SeqCallers : task[c].pc \in {"ended", "failed"}

\* the session of an ended workflow holds as many pivotal moments as its
\* configuration allows, or its last pivotal moment has characterDied
EndedAtCeilingOrDeath ==
  \A c \in Workflows :
    task[c].pc = "ended" =>
      LET session == store[task[c].sid]
          moments == Prop(session, "pivotalMoments")
      IN  \/ Len(moments.a) = Prop(Prop(session, "config"), "maxPivotalMoments").n
          \/ Truthy(Prop(LastOf(moments), "characterDied"))

\* C22: the workflow loop eventually leaves its cycle; when every agent
\* execution succeeded it does so by ending the session, and only once the
\* maximum number of pivotal moments is reached or the character has died.
C22_LoopTerminates ==
  /\ <>LoopOver
  /\ [](\A c \in Workflows : task[c].pc = "failed" => task[c].error # "")
  /\ []EndedAtCeilingOrDeath

\* the workflow ended the session with five pivotal moments, none deadly
C22_Witness ==
  \E c \in Workflows :
    /\ task[c].pc = "ended"
    /\ Len(Prop(store[task[c].sid], "pivotalMoments").a) = 5
    /\ ~Truthy(Prop(LastOf(Prop(store[task[c].sid], "pivotalMoments")), "characterDied"))
    /\ StatusOf(store[task[c].sid]) = JStr("completed")

\* a step in which getNextAgent is called with a registered configuration
GetNextCalled == ~ctl.called /\ ctl'.called /\ Registered'

ExecutorStarts(c) ==
  /\ exec[c].pc # "await"
  /\ exec'[c].pc \in {"await", "done"}
  /\ exec'[c] # exec[c]

\* C24 as stated: an executeAgent invocation writes nothing to the store
\* from its start until the backend call returns.
C24_NoWriteBeforeBackendReturns ==
  [][\A c \in Callers : ExecutorStarts(c) => store' = store]_vars

\* C24, amended: an executeAgent invocation that reaches the backend call
\* writes nothing to the store from its start until that call returns.
C24_NoWriteBeforeBackendCalled ==
  [][\A c \in Callers :
       ExecutorStarts(c) /\ exec'[c].pc = "await" => store' = store]_vars

\* personaGeneration is suspended at the backend call, the session as it
\* was when the invocation started
C24_Witness ==
  \E c \in Callers :
    /\ exec[c].pc = "await"
    /\ exec[c].agent = "personaGeneration"
    /\ exec[c].backendCalls = 1
    /\ SessionExists(store, exec[c].sid)
    /\ readSession(store, exec[c].sid) = exec[c].doc0

\* the request was answered: a choice has already been made for this moment
AlreadyDecided(record) ==
  record.pc = "done" /\ record.status = 400 /\ record.error = DuplicateMsg

\* the positions in the session's choices that decide the pivotal moment
DecisionsFor(session, pivotalMomentId) ==
  {i \in DOMAIN Decided(session) : Decided(session)[i] = JStr(pivotalMomentId)}

\* two callers hold make-choice requests for one moment of one session, the
\* later one sent while the earlier one was in flight
Raced(c, d) ==
  /\ c # d
  /\ task[c].op = "makeChoice" /\ task[d].op = "makeChoice"
  /\ task[c].sid = task[d].sid /\ task[c].arg = task[d].arg

\* C25: of two concurrent make-choice requests for one pivotal moment of one
\* session exactly one is rejected as already decided, and the choices hold
\* exactly one decision for that moment.
C25_OneOfTwoRecords ==
  \A c, d \in Callers :
    Raced(c, d) =>
      /\ AlreadyDecided(task[c]) # AlreadyDecided(task[d])
      /\ Cardinality(DecisionsFor(store[task[c].sid], task[c].arg)) = 1

\* a request was rejected as already decided while the request that recorded
\* the decision awaits the pivotal moment it generates
C25_Witness ==
  \E c, d \in Callers :
    /\ Raced(c, d)
    /\ task[c].pc = "moment" /\ exec[c].pc = "await"
    /\ AlreadyDecided(task[d])

\* C26: a session never holds more pivotal moments than its
\* config.maxPivotalMoments, whatever select-persona and make-choice
\* requests it received (every generation call succeeding).
C26_MomentsWithinCeiling ==
  \A s \in DOMAIN store :
    Len(Prop(store[s], "pivotalMoments").a)
      <= Prop(Prop(store[s], "config"), "maxPivotalMoments").n

\* what a session accumulates as its game is played
ContentFields == {"lifelines", "pivotalMoments", "choices", "executionLogs"}

\* C27: a make-choice or select-persona request that arrives at a session
\* whose status is completed appends no lifeline, pivotal moment, choice or
\* execution log to it (here: in the handler's segment up to its first await).
C27_CompletedIsAbsorbing ==
  [][\A c \in Callers :
       (/\ RouteRequest(c)
        /\ SessionExists(store, task'[c].sid)
        /\ StatusOf(store[task'[c].sid]) = JStr("completed"))
       => \A f \in ContentFields :
            Prop(store'[task'[c].sid], f) = Prop(store[task'[c].sid], f)]_vars

\* the pivotal moment appended last to the session has a recorded decision
LatestDecided(session) ==
  \E i \in DOMAIN Decided(session) :
    Decided(session)[i] = Prop(LastOf(Prop(session, "pivotalMoments")), "id")

\* C28: whenever a session is active, holds a pivotal moment and no request
\* is in flight, its latest pivotal moment has no recorded decision.
C28_ActiveCanAdvance ==
  \A s \in DOMAIN store :
    (/\ StatusOf(store[s]) = JStr("active")
     /\ Prop(store[s], "pivotalMoments").a # <<>>
     /\ \A c \in Callers : ~Busy(c))
    => ~LatestDecided(store[s])

\* C29: when make-choice has recorded a decision it ends the session
\* exactly when getNextAgent('pivotalMomentGeneration', session, true) is
\* terminal for the session, and else goes on to lifelineGeneration, the
\* agent getNextAgent returns.
C29_RouteAgreesWithController ==
  [][\A c \in Callers :
       (/\ MakeChoiceRequest(c)
        /\ SessionExists(store, task'[c].sid)
        /\ Prop(store'[task'[c].sid], "choices") # Prop(store[task'[c].sid], "choices"))
       => LET next == getNextAgent("pivotalMomentGeneration",
                                   readSession(store', task'[c].sid), TRUE)
          IN  /\ task'[c].pc = "done" <=> next = Terminal
              /\ task'[c].pc = "lifeline" <=> next = "lifelineGeneration"]_vars

\* the session without its executionLogs and its metadata.totalSteps
Rest(session) ==
  LET meta == Prop(session, "metadata")
      noLogs == WithProp(session, "executionLogs", Undefined)
  IN  IF meta.t = "object"
        THEN WithProp(noLogs, "metadata", WithProp(meta, "totalSteps", Undefined))
        ELSE noLogs

\* C30: after an executeAgent call that failed, the session is as the call
\* found it, but for executionLogs and metadata.totalSteps.
C30_FailureKeepsContent ==
  \A c \in Callers :
    (/\ exec[c].pc = "done"
     /\ exec[c].outcome = "threw"
     /\ exec[c].doc0 # Undefined
     /\ SessionExists(store, exec[c].sid))
    => Rest(readSession(store, exec[c].sid)) = Rest(exec[c].doc0)

\* the backend call of personaGeneration failed on a session that holds its
\* historical context, and the failure was logged
C30_Witness ==
  \E c \in Callers :
    /\ exec[c].pc = "done" /\ exec[c].outcome = "threw"
    /\ exec[c].agent = "personaGeneration"
    /\ exec[c].backendCalls = 1
    /\ SessionExists(store, exec[c].sid)
    /\ Truthy(Prop(readSession(store, exec[c].sid), "historicalContext"))
    /\ Len(Prop(readSession(store, exec[c].sid), "executionLogs").a)
         = Len(Prop(exec[c].doc0, "executionLogs").a) + 1

\* C31: in every stored session metadata.totalSteps is the number of
\* entries of executionLogs.
C31_TotalStepsCountsLogs ==
  \A s \in DOMAIN store :
    Prop(Prop(store[s], "metadata"), "totalSteps")
      = JNum(Len(Prop(store[s], "executionLogs").a))

\* a session holds the log of a failed and the log of a successful call
C31_Witness ==
  \E s \in DOMAIN store :
    LET logs == Prop(store[s], "executionLogs").a
    IN  /\ Len(logs) = 2
        /\ Prop(logs[1], "success") = JBool(FALSE)
        /\ Prop(logs[2], "success") = JBool(TRUE)
        /\ Prop(Prop(store[s], "metadata"), "totalSteps") = JNum(2)

\* the own keys of an object, or the non-index properties of an array
KeysOf(v) == IF v.t = "object" THEN DOMAIN v.f ELSE DOMAIN v.p

\* after is before with value at the path keys: along the path every other
\* key keeps its value, no key is added but those of the path, and the
\* elements of an array on the path stay
RECURSIVE SetAt(_, _, _, _)
SetAt(before, after, keys, value) ==
  /\ after.t = before.t
  /\ before.t = "array" => after.a = before.a
  /\ KeysOf(after) = KeysOf(before) \cup {Head(keys)}
  /\ \A k \in KeysOf(before) \ {Head(keys)} : Prop(after, k) = Prop(before, k)
  /\ IF Len(keys) = 1 THEN Prop(after, Head(keys)) = value
     ELSE SetAt(IF HasKey(before, Head(keys)) THEN Prop(before, Head(keys))
                ELSE JObj(<<>>),
                Prop(after, Head(keys)), Tail(keys), value)

\* C32 as claimed: setNestedValue succeeds for every path, and the object it
\* leaves differs from the one it found only by the value at the path.
C32_SetsEveryPath ==
  last.op = "setNestedValue" =>
    /\ ~last.threw
    /\ SetAt(store[last.sid], last.obj, Split(last.path), last.value)

\* C32 as amended: for every path whose segments before the last are each
\* absent or hold an object, setNestedValue succeeds, and the object it
\* leaves differs from the one it found only by the value at the path.
C32_SetsThroughObjects ==
  last.op = "setNestedValue" /\ ThroughObjects(store[last.sid], Split(last.path)) =>
    /\ ~last.threw
    /\ SetAt(store[last.sid], last.obj, Split(last.path), last.value)

\* metadata.endTime was set on a session: metadata.status is still there
C32_Witness ==
  /\ last.op = "setNestedValue"
  /\ last.path = "metadata.endTime"
  /\ ~last.threw
  /\ Prop(Prop(last.obj, "metadata"), "endTime") = last.value
  /\ Prop(Prop(last.obj, "metadata"), "status") = JStr("active")
  /\ ~HasKey(Prop(store[last.sid], "metadata"), "endTime")

\* JSON.stringify keeps the value whole: no property of it holds undefined,
\* no array in it has an undefined element or a property of its own
RECURSIVE JSONData(_)
JSONData(v) ==
  CASE v.t = "undefined" -> FALSE
    [] v.t = "object" -> \A k \in DOMAIN v.f : JSONData(v.f[k])
    [] v.t = "array" -> v.p = <<>> /\ \A i \in DOMAIN v.a : JSONData(v.a[i])
    [] OTHER -> TRUE

\* C33 as claimed: readSession after writeSession(id, S) returns S,
\* whatever files the session had.
C33_ReadsWhatWasWritten ==
  last.op = "writeSession" => ~last.threw /\ last.got = last.value

\* C33 as amended: readSession after writeSession(id, S) returns S when S
\* holds JSON data only, whatever files the session had.
C33_ReadsJSONDataWritten ==
  last.op = "writeSession" /\ JSONData(last.value) =>
    ~last.threw /\ last.got = last.value

\* a session that had only its flat file was written and read back: the
\* flat file still holds the older document
C33_Witness ==
  /\ last.op = "writeSession"
  /\ JSONData(last.value)
  /\ last.got = last.value
  /\ getOldSessionFilePath(last.sid) \in DOMAIN store
  /\ store[getOldSessionFilePath(last.sid)] # last.value

\* the value supplied for a key, if any
Supplied(variables, key) == {i \in DOMAIN variables : variables[i].key = key}

\* the keys whose placeholder starts at position i of the text
KeysAt(str, variables, i) ==
  {k \in {variables[j].key : j \in DOMAIN variables} :
     /\ i + Len(Placeholder(k)) - 1 <= Len(str)
     /\ SubSeq(str, i, i + Len(Placeholder(k)) - 1) = Placeholder(k)}

\* the template with each placeholder of a supplied variable replaced by the
\* variable's value, and every other character kept
RECURSIVE Substituted(_, _, _)
Substituted(str, variables, i) ==
  IF i > Len(str) THEN <<>>
  ELSE IF KeysAt(str, variables, i) # {}
    THEN LET k == CHOOSE x \in KeysAt(str, variables, i) : TRUE
             j == CHOOSE x \in Supplied(variables, k) : TRUE
         IN  variables[j].value \o
             Substituted(str, variables, i + Len(Placeholder(k)))
  ELSE <<str[i]>> \o Substituted(str, variables, i + 1)

\* C34: fillPromptTemplate never fails, and returns the template with every
\* placeholder of a supplied variable replaced by the variable's value and
\* every other placeholder left as it is.
C34_SubstitutesValues ==
  last.op = "fillPromptTemplate" =>
    /\ ~last.threw
    /\ last.result = Substituted(last.template, last.variables, 1)

\* the calls of executeAgent that built their prompt variables
PromptBuilt == {c \in Callers : exec[c].pc # "idle" /\ exec[c].prompt # <<>>}

\* C35: the expectedStartAge of a prompt is the endAge of the last lifeline
\* of the session the call found, and 0 when the session had no lifeline.
C35_StartsWherePreviousEnded ==
  \A c \in PromptBuilt :
    LET lifelines == Prop(exec[c].doc0, "lifelines").a
    IN  exec[c].prompt.expectedStartAge =
          IF lifelines = <<>> THEN "0"
          ELSE ToStr(Prop(lifelines[Len(lifelines)], "endAge"))

\* a prompt was built for a session whose two lifelines end at different
\* ages: it asks to start at the end of the second
C35_Witness ==
  \E c \in PromptBuilt :
    LET lifelines == Prop(exec[c].doc0, "lifelines").a
    IN  /\ Len(lifelines) = 2
        /\ Prop(lifelines[1], "endAge") = JNum(15)
        /\ Prop(lifelines[2], "endAge") = JNum(30)
        /\ exec[c].prompt.expectedStartAge = "30"

\* the generateLifeline calls that have ended after their scene image failed
SceneFailures ==
  {c \in Callers : task[c].op = "generateLifeline" /\ task[c].pc = "done"
                   /\ task[c].sceneFailed}

\* C36: a generateLifeline call whose scene-image generation failed does not
\* reject; it returns the lifeline its agent produced, and that lifeline is
\* the last element of the stored session's lifelines.
C36_SceneFailureKeepsLifeline ==
  \A c \in SceneFailures :
    /\ task[c].error = ""
    /\ task[c].value = task[c].output
    /\ LastOf(Prop(readSession(store, task[c].sid), "lifelines")) = task[c].value

\* the image agent of a scene failed after the prompt agent had added its
\* prompt, on a session that held a lifeline before: generateLifeline has
\* returned the second lifeline
C36_Witness ==
  \E c \in SceneFailures :
    LET session == readSession(store, task[c].sid)
    IN  /\ Len(Prop(session, "lifelines").a) = 2
        /\ Prop(session, "imagePrompts").a # <<>>
        /\ Prop(LastOf(Prop(session, "executionLogs")), "agentId") = JStr("imageGeneration")
        /\ Prop(LastOf(Prop(session, "executionLogs")), "success") = JBool(FALSE)
        /\ task[c].value = LastOf(Prop(session, "lifelines"))

\* C37: the selectedId of the history store is null or the id of a session
\* in its sessions list.
C37_SelectedIsListed ==
  LET state == readStorage(store)
  IN  Prop(state, "selectedId") = JNull \/ Prop(state, "selectedId") \in IdsOf(state)

\* selectSession has selected the second session of a list of two
C37_Witness ==
  LET state == readStorage(store)
  IN  /\ \E c \in SeqCallers : task[c].op = "selectSession" /\ task[c].pc = "done"
      /\ Len(SessionsOf(state)) = 2
      /\ Prop(state, "selectedId") = Prop(SessionsOf(state)[2], "id")
      /\ Prop(state, "selectedId") # Prop(SessionsOf(state)[1], "id")

\* the renameSession and selectSession calls that have returned
LookupsDone ==
  {c \in SeqCallers : task[c].op \in {"renameSession", "selectSession"}
                      /\ task[c].pc = "done"}

\* the call of caller c named an id the list did not hold
UnknownId(c) == JStr(task[c].sid) \notin IdsOf(task[c].before)

\* the call of caller c named the label its session had
SameLabel(c) ==
  /\ task[c].op = "renameSession"
  /\ ~UnknownId(c)
  /\ Prop(Find(SessionsOf(task[c].before), "id", JStr(task[c].sid)), "label")
       = JStr(task[c].arg)

\* C38: renameSession and selectSession with an id the list does not hold
\* return null (PATCH answers 404) and leave the stored list and selectedId
\* as they were; so does renameSession with the label the session has.
C38_UnknownIdChangesNothing ==
  \A c \in LookupsDone :
    /\ UnknownId(c) =>
         /\ task[c].value = JNull
         /\ task[c].route => task[c].status = 404
         /\ readStorage(store) = task[c].before
    /\ SameLabel(c) => readStorage(store) = task[c].before

\* PATCH for an id that a list of two sessions does not hold has answered 404
C38_Witness ==
  \E c \in LookupsDone :
    /\ task[c].route
    /\ UnknownId(c)
    /\ task[c].status = 404
    /\ Len(SessionsOf(readStorage(store))) = 2

\* the createSession and registerSession calls that have returned
AddsDone ==
  {c \in Callers : task[c].op \in {"createSession", "registerSession"}
                   /\ task[c].pc = "done"}

\* C39: once overlapping createSession and registerSession calls have all
\* returned, the stored list holds the session of each of them.
C39_NoSessionLost ==
  (\A c \in Callers : task[c].pc \in {"idle", "done"}) =>
    \A c \in AddsDone :
      Prop(SessionsOf(task[c].value)[1], "id") \in IdsOf(readStorage(store))

====
